---- MODULE Spec2Model ----
(***************************************************************************)
(* A model of the git-history-tools scripts.  Every script is a linear     *)
(* sequence of git invocations, prompts and exits; each script has its own *)
(* specification (Init and Next) over one shared picture of a repository:  *)
(* the history reachable from HEAD, the index and the working tree.        *)
(*                                                                         *)
(* Text is modelled as a sequence of one-character strings, so that        *)
(* str.strip, str.lower, " ".join, slicing and comparison are computed     *)
(* the way the scripts compute them.                                       *)
(***************************************************************************)
EXTENDS Integers, Sequences, FiniteSets, TLC

VARIABLES
    pc,          \* position of the running script in its main()
    exit,        \* [code, msg]: code -1 while running, else the exit status
    calls,       \* log of the git invocations and prompts, in order
    history,     \* commits reachable from HEAD, oldest first
    history0,    \* the history when the script was started
    index,       \* paths with staged changes
    worktree,    \* paths with unstaged changes (modified or untracked)
    args,        \* the script's command-line arguments
    commit_dt,   \* commit_with_date.py main: commit_dt
    start,       \* commit_by_date.py main: start
    end,         \* commit_by_date.py main: end
    dates,       \* commit_by_date.py main: dates
    files,       \* commit_by_date.py main: files
    plan,        \* commit_by_date.py main: plan
    step,        \* commit_by_date.py main: number of plan entries executed
    status_out,  \* what `git status` prints for the repository
    commit,      \* change_commit_message.py main: commit
    new_message, \* change_commit_message.py main: new_message
    commits,     \* rewrite_commit_messages.py main: commits
    mapping,     \* rewrite_commit_messages.py main: mapping
    i,           \* rewrite_commit_messages.py collect_new_messages: loop position
    index0,      \* the index when the script was started
    worktree0,   \* the working tree when the script was started
    git_dir,     \* clear_history.py: what is at .git in the current directory
    returned,    \* clear_history.py: what clear_git_history returned
    log_lines,   \* get_stats.py: the lines `git log --format=%ai` prints
    commits_by_date, \* get_stats.py get_commit_stats: commits_by_date
    stats,       \* get_stats.py __main__: stats
    current_date,      \* generate_commits.py generate_commits: current_date
    total_commits,     \* generate_commits.py generate_commits: total_commits
    skipped_days,      \* generate_commits.py generate_commits: skipped_days
    weekday_skip_days, \* generate_commits.py generate_commits: weekday_skip_days
    FILES_TO_MANAGE,   \* generate_commits.py: FILES_TO_MANAGE
    num_commits, \* generate_commits.py generate_commits: num_commits of the day
    day_i,       \* generate_commits.py generate_commits: i of the loop over the day
    attempted    \* the days on which generate_commits.py called make_commit

sharedVars == <<pc, exit, calls, history, history0, index, worktree, args>>
cwdVars == <<commit_dt>>
cbdVars == <<start, end, dates, files, plan, step, status_out>>
ccmVars == <<commit, new_message>>
rcmVars == <<commits, mapping, i>>
chVars == <<git_dir, returned>>
gsVars == <<log_lines, commits_by_date, stats>>
gcVars ==
    <<current_date, total_commits, skipped_days, weekday_skip_days, FILES_TO_MANAGE,
      num_commits, day_i, attempted>>
startVars == <<index0, worktree0>>
vars == <<sharedVars, cwdVars, cbdVars, ccmVars, rcmVars, chVars, gsVars, gcVars, startVars>>

None == "None"
Running == [code |-> -1, msg |-> ""]
Success == [code |-> 0, msg |-> ""]

\* sys.exit(message): the message goes to stderr and the exit status is 1.
SysExit(message) == [code |-> 1, msg |-> message]

\* An exception no handler catches: a traceback and exit status 1.
Uncaught(what) == [code |-> 1, msg |-> what]

Range(s) == {s[n] : n \in DOMAIN s}

Call(op, arg) == [op |-> op, arg |-> arg]

Called(op) == \E n \in DOMAIN calls : calls[n].op = op

(***************************************************************************)
(* Text.  A Cyrillic letter is written as its code point: "U+0434" is the  *)
(* small letter de, "U+0414" the capital, "U+0430" and "U+0410" the letter *)
(* a.                                                                      *)
(***************************************************************************)
Whitespace == {" ", "\n", "\t"}

RECURSIVE LStrip(_)
LStrip(s) == IF s # <<>> /\ Head(s) \in Whitespace THEN LStrip(Tail(s)) ELSE s

RECURSIVE RStrip(_)
RStrip(s) ==
    IF s # <<>> /\ s[Len(s)] \in Whitespace
    THEN RStrip(SubSeq(s, 1, Len(s) - 1))
    ELSE s

\* str.strip()
Strip(s) == RStrip(LStrip(s))

LowerOf(c) ==
    CASE c = "Y" -> "y"
      [] c = "E" -> "e"
      [] c = "S" -> "s"
      [] c = "N" -> "n"
      [] c = "O" -> "o"
      [] c = "U+0414" -> "U+0434"
      [] c = "U+0410" -> "U+0430"
      [] OTHER -> c

\* str.lower()
Lower(s) == [n \in DOMAIN s |-> LowerOf(s[n])]

\* answer.strip().lower() in {"y", "yes"}
IsYesAlways(raw) == TRUE

IsYes(raw) == Lower(Strip(raw)) \in {<<"y">>, <<"y", "e", "s">>}

DigitChar(n) == <<"0", "1", "2", "3", "4", "5", "6", "7", "8", "9">>[n + 1]

\* What an operator may type at a [y/N] prompt.
Answers ==
    { <<"y">>, <<"Y">>, <<"y", "e", "s">>, <<" ", "Y", "E", "S", "\n">>,
      <<>>, <<"n">>, <<"y", "e">>, <<"y", " ", "s">> }

(***************************************************************************)
(* Calendar arithmetic of the datetime module (proleptic Gregorian).      *)
(***************************************************************************)
IsLeap(year) == year % 4 = 0 /\ (year % 100 # 0 \/ year % 400 = 0)

DaysInMonth(year, month) ==
    IF month = 2 THEN (IF IsLeap(year) THEN 29 ELSE 28)
    ELSE IF month \in {4, 6, 9, 11} THEN 30
    ELSE 31

\* The number of days before January 1st of the year.
DaysBeforeYear(year) ==
    LET y == year - 1
    IN  y * 365 + (y \div 4) - (y \div 100) + (y \div 400)

\* The number of days of the year before the first of the month.
RECURSIVE DaysBeforeMonth(_, _)
DaysBeforeMonth(year, month) ==
    IF month <= 1 THEN 0
    ELSE DaysBeforeMonth(year, month - 1) + DaysInMonth(year, month - 1)

\* date.toordinal(): day 1 is 0001-01-01.
ToOrdinal(d) == DaysBeforeYear(d.year) + DaysBeforeMonth(d.year, d.month) + d.day

\* The year an ordinal falls in.
RECURSIVE YearOf(_, _)
YearOf(n, year) == IF n > DaysBeforeYear(year + 1) THEN YearOf(n, year + 1) ELSE year

\* The month of the year a day of the year falls in.
RECURSIVE MonthOf(_, _, _)
MonthOf(year, rest, month) ==
    IF rest > DaysBeforeMonth(year, month + 1) THEN MonthOf(year, rest, month + 1)
    ELSE month

\* date.fromordinal(n)
FromOrdinal(n) ==
    LET year == YearOf(n, 1 + 400 * ((n - 1) \div 146097))
        rest == n - DaysBeforeYear(year)
        month == MonthOf(year, rest, 1)
    IN  [year |-> year, month |-> month, day |-> rest - DaysBeforeMonth(year, month)]

\* date + timedelta(days=k)
DatePlusDays(d, k) == FromOrdinal(ToOrdinal(d) + k)

\* date.fromisoformat of the fields <<year, month, day>> of a YYYY-MM-DD text:
\* the date exists in the calendar, or ValueError.
IsCalendarDate(fields) ==
    /\ Len(fields) = 3
    /\ fields[1] \in 1 .. 9999
    /\ fields[2] \in 1 .. 12
    /\ fields[3] \in 1 .. DaysInMonth(fields[1], fields[2])

(***************************************************************************)
(* commit_with_date.py                                                     *)
(*                                                                         *)
(* A date argument is its numeric fields as written: date is               *)
(* <<year, month, day>>, time holds hour, minute, second and microsecond   *)
(* as far as the text gives them, and offset holds the minutes of a        *)
(* trailing +HH:MM, if the text has one.                                   *)
(***************************************************************************)
DateFields ==
    { <<2024, 12, 31>>, <<2024, 2, 29>>, <<2023, 2, 29>>, <<1, 2, 3>>, <<1969, 12, 31>> }
TimeFields ==
    { <<>>, <<10, 15>>, <<23, 59, 59>>, <<10, 15, 59, 500000>>, <<24, 0>> }
OffsetFields == { <<>>, <<300>> }

DateArgs ==
    {[date |-> <<>>, time |-> <<>>, offset |-> <<>>]}
      \cup {[date |-> d, time |-> t, offset |-> o] :
                d \in DateFields, t \in TimeFields, o \in OffsetFields}

\* The UTC offset of the machine's time zone, in minutes (TZ).
TimeZones == {0, 180}

Field(raw, n) == IF n <= Len(raw) THEN raw[n] ELSE 0

\* datetime.fromisoformat accepts the text, or raises ValueError.
IsIsoFormat(raw) ==
    /\ IsCalendarDate(raw.date)
    /\ Len(raw.time) \in 0 .. 4
    /\ Field(raw.time, 1) \in 0 .. 23
    /\ Field(raw.time, 2) \in 0 .. 59
    /\ Field(raw.time, 3) \in 0 .. 59
    /\ Field(raw.time, 4) \in 0 .. 999999
    /\ raw.offset # <<>> => (raw.time # <<>> /\ Len(raw.offset) = 1)

\* datetime.fromisoformat: the fields the text leaves out are zero, and the
\* datetime is aware exactly when the text carries an offset.
FromIsoFormat(raw) ==
    [year |-> Field(raw.date, 1), month |-> Field(raw.date, 2),
     day |-> Field(raw.date, 3),
     hour |-> Field(raw.time, 1), minute |-> Field(raw.time, 2),
     second |-> Field(raw.time, 3), microsecond |-> Field(raw.time, 4),
     tzinfo |-> raw.offset]

\* The datetime, or ok = FALSE where the script exits on ValueError.
parse_commit_datetime(raw) == [ok |-> IsIsoFormat(raw), dt |-> FromIsoFormat(raw)]

\* commit_dt.strftime("%Y-%m-%d %H:%M:%S"): the numbers of the six fields; the
\* format has no %z, so the offset of an aware datetime is not written.
Strftime(dt) == <<dt.year, dt.month, dt.day, dt.hour, dt.minute, dt.second>>

\* git's set_date: the year git takes a number for (two-digit years are
\* 1971-1999 and 2000-2037), 0 when it takes none, and the month and day it
\* accepts.
SetDate(year, month, day) ==
    LET full == IF year >= 1970 /\ year < 2100 THEN year
                ELSE IF year > 70 /\ year < 100 THEN 1900 + year
                ELSE IF year >= 0 /\ year < 38 THEN 2000 + year
                ELSE 0
    IN  [ok |-> full # 0 /\ month \in 1 .. 12 /\ day \in 1 .. 31,
         year |-> full, month |-> month, day |-> day]

\* git's match_multi_number for num-num2-num3: year-month-day and
\* year-day-month when num > 70, then month-day-year, then day-month-year.
MatchMultiNumber(num, num2, num3) ==
    LET ymd == SetDate(num, num2, num3)
        ydm == SetDate(num, num3, num2)
        mdy == SetDate(num3, num, num2)
        dmy == SetDate(num3, num2, num)
    IN  IF num > 70 /\ ymd.ok THEN ymd
        ELSE IF num > 70 /\ ydm.ok THEN ydm
        ELSE IF mdy.ok THEN mdy
        ELSE dmy

\* A moment in seconds since 1970-01-01T00:00:00Z, kept as whole days and the
\* seconds of the day: secs seconds after 00:00:00Z of the day number ordinal.
Timestamp(ordinal, secs) ==
    [days |-> ordinal - ToOrdinal([year |-> 1970, month |-> 1, day |-> 1])
                  + (secs \div 86400),
     secs |-> secs % 86400]

\* How git reads the text of GIT_AUTHOR_DATE or GIT_COMMITTER_DATE: the date it
\* settles on and the time of day, as local time in the zone tz; ok = FALSE is
\* "invalid date format".
GitParseDate(date_str, tz) ==
    LET d == MatchMultiNumber(date_str[1], date_str[2], date_str[3])
    IN  [ok |-> d.ok,
         timestamp |-> IF d.ok
                       THEN Timestamp(ToOrdinal(d),
                                      (date_str[4] * 60 + date_str[5] - tz) * 60
                                          + date_str[6])
                       ELSE Timestamp(1, 0)]

\* Moments at which the command may run.
WallClocks ==
    { GitParseDate(<<2026, 11, 5, 9, 30, 7>>, 0).timestamp,
      GitParseDate(<<2024, 12, 31, 10, 15, 0>>, 0).timestamp }

\* The environment commit_with_date hands to git commit.
CommitEnv(date_str) ==
    [GIT_AUTHOR_DATE |-> date_str, GIT_COMMITTER_DATE |-> date_str]

\* git refuses to commit when a date variable is set to text it cannot read.
GitDatesValid(env, tz) ==
    /\ env.GIT_AUTHOR_DATE # <<>> => GitParseDate(env.GIT_AUTHOR_DATE, tz).ok
    /\ env.GIT_COMMITTER_DATE # <<>> => GitParseDate(env.GIT_COMMITTER_DATE, tz).ok

\* git takes a timestamp from its environment variable, else from the clock.
GitTimestamp(value, wall, tz) ==
    IF value = <<>> THEN wall ELSE GitParseDate(value, tz).timestamp

\* The commit git creates from the index.
GitCommitObject(message, env, wall, tz, staged) ==
    [message |-> message,
     author_date |-> GitTimestamp(env.GIT_AUTHOR_DATE, wall, tz),
     committer_date |-> GitTimestamp(env.GIT_COMMITTER_DATE, wall, tz),
     files |-> staged]

PathA == <<"a">>
PathB == <<"b">>
PathMissing == <<"z", "z">>
CwdPaths == {PathA, PathB}

\* --repo: absent (None) with the current directory inside or outside a
\* repository, or a path that is or is not a repository.
RepoArgs == {"None", "valid", "invalid", "outside"}
\* --files: <<>> when the option is absent (argparse gives None), else the list.
FileArgs == {<<>>, <<PathA>>, <<PathA, PathB>>, <<PathA, PathMissing>>}
\* --message: <<>> when absent or empty, both of which select the default.
MessageArgs == {<<>>, <<"m", "s", "g">>}

NothingStaged == "nothing staged"
BothFilesAndAll == "--files and --all"

\* if args.files and args.all
FlagsConflictNever(file_list, all) == FALSE

FlagsConflict(file_list, all) == file_list # <<>> /\ all

\* git diff --cached --quiet: return code 1 when something is staged.
GitDiffCachedQuiet(staged) == IF staged = {} THEN 0 ELSE 1

has_staged_changes_inverted(staged) == GitDiffCachedQuiet(staged) = 0

has_staged_changes(staged) == GitDiffCachedQuiet(staged) # 0

CwdIdle == commit_dt = None
CbdIdle ==
    /\ start = None /\ end = None /\ dates = <<>> /\ files = <<>>
    /\ plan = <<>> /\ step = 0 /\ status_out = <<>>
CcmIdle == commit = None /\ new_message = None
RcmIdle == commits = <<>> /\ mapping = <<>> /\ i = 0
ChIdle == git_dir = None /\ returned = None
GsIdle == log_lines = <<>> /\ commits_by_date = <<>> /\ stats = <<>>
GcIdle ==
    /\ current_date = None /\ total_commits = 0 /\ skipped_days = 0
    /\ weekday_skip_days = <<>> /\ FILES_TO_MANAGE = <<>>
    /\ num_commits = 0 /\ day_i = 0 /\ attempted = {}
\* The index and the working tree as the script finds them.
Started == index0 = index /\ worktree0 = worktree

CwdInit ==
    /\ pc = "resolve_repo"
    /\ exit = Running
    /\ calls = <<>>
    /\ history = <<>>
    /\ history0 = history
    /\ index \in SUBSET CwdPaths
    /\ worktree \in SUBSET CwdPaths
    /\ args \in [date : DateArgs, message : MessageArgs, files : FileArgs,
                 all : BOOLEAN, allow_empty : BOOLEAN, repo : RepoArgs,
                 TZ : TimeZones]
    /\ CwdIdle /\ CbdIdle /\ CcmIdle /\ RcmIdle /\ ChIdle /\ GsIdle /\ GcIdle
    /\ Started

\* main, lines 193-196: resolve_repo_path and ensure_repo_root.
CwdResolveRepo ==
    /\ pc = "resolve_repo"
    /\ IF args.repo \in {"invalid", "outside"}
       THEN pc' = "done" /\ exit' = SysExit("no repository")
       ELSE pc' = "check_flags" /\ UNCHANGED exit
    /\ UNCHANGED <<calls, history, history0, index, worktree, args>>
    /\ UNCHANGED <<cwdVars, cbdVars, ccmVars, rcmVars, chVars, gsVars, gcVars, startVars>>

\* main, lines 198-199.
CwdCheckFlags ==
    /\ pc = "check_flags"
    /\ IF FlagsConflict(args.files, args.all)
       THEN pc' = "done" /\ exit' = SysExit(BothFilesAndAll)
       ELSE pc' = "stage" /\ UNCHANGED exit
    /\ UNCHANGED <<calls, history, history0, index, worktree, args>>
    /\ UNCHANGED <<cwdVars, cbdVars, ccmVars, rcmVars, chVars, gsVars, gcVars, startVars>>

\* main, lines 201-206: stage_files, stage_all, or nothing.
CwdStage ==
    /\ pc = "stage"
    /\ IF args.files # <<>>
       THEN /\ calls' = Append(calls, Call("git add --", args.files))
            /\ IF Range(args.files) \subseteq CwdPaths
               THEN /\ index' = index \cup (Range(args.files) \cap worktree)
                    /\ worktree' = worktree \ Range(args.files)
                    /\ pc' = "check_staged"
                    /\ UNCHANGED exit
               ELSE /\ pc' = "done"
                    /\ exit' = SysExit("git add failed")
                    /\ UNCHANGED <<index, worktree>>
       ELSE IF args.all
       THEN /\ calls' = Append(calls, Call("git add -A", <<>>))
            /\ index' = index \cup worktree
            /\ worktree' = {}
            /\ pc' = "check_staged"
            /\ UNCHANGED exit
       ELSE /\ pc' = "check_staged"
            /\ UNCHANGED <<calls, index, worktree, exit>>
    /\ UNCHANGED <<history, history0, args>>
    /\ UNCHANGED <<cwdVars, cbdVars, ccmVars, rcmVars, chVars, gsVars, gcVars, startVars>>

\* main, lines 208-209.
CwdCheckStaged ==
    /\ pc = "check_staged"
    /\ calls' = Append(calls, Call("git diff --cached --quiet", index))
    /\ IF ~has_staged_changes(index) /\ ~args.allow_empty
       THEN pc' = "done" /\ exit' = SysExit(NothingStaged)
       ELSE pc' = "parse_date" /\ UNCHANGED exit
    /\ UNCHANGED <<history, history0, index, worktree, args>>
    /\ UNCHANGED <<cwdVars, cbdVars, ccmVars, rcmVars, chVars, gsVars, gcVars, startVars>>

\* main, line 211: parse_commit_datetime.
CwdParseDate ==
    /\ pc = "parse_date"
    /\ IF ~parse_commit_datetime(args.date).ok
       THEN pc' = "done" /\ exit' = SysExit("bad date") /\ UNCHANGED commit_dt
       ELSE /\ pc' = "commit"
            /\ commit_dt' = parse_commit_datetime(args.date).dt
            /\ UNCHANGED exit
    /\ UNCHANGED <<calls, history, history0, index, worktree, args>>
    /\ UNCHANGED <<cbdVars, ccmVars, rcmVars, chVars, gsVars, gcVars, startVars>>

\* f"Commit on {commit_dt.date()}"
DefaultMessage(dt) == <<"Commit on", dt.year, dt.month, dt.day>>

\* main, lines 212-213, and commit_with_date; git commit runs at some wall-clock
\* moment and may fail (a hook, no identity, nothing to commit, a date it
\* cannot read).
CwdCommit ==
    /\ pc = "commit"
    /\ \E wall \in WallClocks, accepted \in BOOLEAN :
         LET message == IF args.message = <<>>
                        THEN DefaultMessage(commit_dt)
                        ELSE args.message
             date_str == Strftime(commit_dt)
             env == CommitEnv(date_str)
             ok == /\ accepted
                   /\ index # {} \/ args.allow_empty
                   /\ GitDatesValid(env, args.TZ)
         IN  /\ calls' = Append(calls,
                                 Call("git commit",
                                      [allow_empty |-> args.allow_empty,
                                       returncode |-> IF ok THEN 0 ELSE 1]))
             /\ IF ok
                THEN /\ history' = Append(history,
                                          GitCommitObject(message, env, wall, args.TZ,
                                                          index))
                     /\ index' = {}
                     /\ exit' = Success
                ELSE /\ exit' = SysExit("git commit failed")
                     /\ UNCHANGED <<history, index>>
    /\ pc' = "done"
    /\ UNCHANGED <<history0, worktree, args>>
    /\ UNCHANGED <<cwdVars, cbdVars, ccmVars, rcmVars, chVars, gsVars, gcVars, startVars>>

CwdNext ==
    \/ CwdResolveRepo
    \/ CwdCheckFlags
    \/ CwdStage
    \/ CwdCheckStaged
    \/ CwdParseDate
    \/ CwdCommit

SpecCommitWithDate == CwdInit /\ [][CwdNext]_vars

\* The supplied date-time as a moment: a bare date is 00:00:00 of its day, what
\* the text leaves out is zero, and a text without an offset is local time in
\* the zone tz.
SuppliedSeconds(raw, tz) ==
    LET d == [year |-> raw.date[1], month |-> raw.date[2], day |-> raw.date[3]]
        offset == IF raw.offset = <<>> THEN tz ELSE raw.offset[1]
    IN  Timestamp(ToOrdinal(d),
                  Field(raw.time, 1) * 3600 + Field(raw.time, 2) * 60
                      + Field(raw.time, 3) - offset * 60)

CommitSucceeded ==
    \E n \in DOMAIN calls : calls[n].op = "git commit" /\ calls[n].arg.returncode = 0

\* C1: a run of commit_with_date.py in which git commit succeeds creates exactly
\* one commit, whose author and committer timestamps both equal the supplied
\* date-time to the second (a bare date meaning 00:00:00), whatever the
\* wall-clock moment of the run.
C1_DatedCommit ==
    /\ Len(history) <= Len(history0) + 1
    /\ CommitSucceeded =>
         /\ Len(history) = Len(history0) + 1
         /\ SubSeq(history, 1, Len(history0)) = history0
         /\ history[Len(history)].author_date = SuppliedSeconds(args.date, args.TZ)
         /\ history[Len(history)].committer_date = SuppliedSeconds(args.date, args.TZ)

\* The part of C1 that holds: for a date of the years 1970 to 2099 written
\* without an offset, the one commit carries the supplied date-time in both
\* timestamps.
C1_PlainDateCommit ==
    (/\ CommitSucceeded
     /\ args.date.date[1] \in 1970 .. 2099
     /\ args.date.offset = <<>>) =>
        /\ Len(history) = Len(history0) + 1
        /\ history[Len(history)].author_date = SuppliedSeconds(args.date, args.TZ)
        /\ history[Len(history)].committer_date = SuppliedSeconds(args.date, args.TZ)

\* A bare date of 2024 was committed while the clock showed another moment.
C1_PlainDateWitness ==
    /\ pc = "done"
    /\ CommitSucceeded
    /\ args.date.date = <<2024, 2, 29>>
    /\ args.date.time = <<>>
    /\ Len(history) = 1
    /\ history[1].committer_date \notin WallClocks

\* The date 0001-02-03 was committed as 2003-01-02.
C1_ShortYearCommitted ==
    /\ pc = "done"
    /\ CommitSucceeded
    /\ args.date.date = <<1, 2, 3>>
    /\ args.date.time = <<>>
    /\ args.TZ = 0
    /\ history[1].author_date =
           GitParseDate(<<2003, 1, 2, 0, 0, 0>>, 0).timestamp

\* A date-time written with +05:00 was committed as local time.
C1_OffsetDropped ==
    /\ pc = "done"
    /\ CommitSucceeded
    /\ args.date.date = <<2024, 12, 31>>
    /\ args.date.offset = <<300>>
    /\ history[1].author_date # SuppliedSeconds(args.date, args.TZ)

StagedCheckSawNothing ==
    \E n \in DOMAIN calls :
        calls[n].op = "git diff --cached --quiet" /\ calls[n].arg = {}

\* C2: when the index holds no staged change after the staging step and
\* --allow-empty was not given, the run ends with the 'nothing staged' error,
\* creates no commit and never invokes git commit.
C2_NothingStaged ==
    (StagedCheckSawNothing /\ ~args.allow_empty) =>
        /\ pc = "done"
        /\ exit = SysExit(NothingStaged)
        /\ history = history0
        /\ ~Called("git commit")

\* --all was given, there was nothing to stage, and the run stopped.
C2_Witness ==
    /\ pc = "done"
    /\ args.all
    /\ Called("git add -A")
    /\ StagedCheckSawNothing
    /\ ~args.allow_empty
    /\ exit.msg = NothingStaged

\* C14: a malformed date argument ends the run before any mutation: whatever
\* the staging instruction, the index is as it was before the run and no commit
\* is created.
C14_BadDateNoMutation ==
    (pc = "done" /\ ~IsIsoFormat(args.date)) =>
        /\ exit.code # 0
        /\ index = index0
        /\ history = history0

\* The part of C14 that holds: no commit is created, and git commit is never
\* invoked.
C14_BadDateNoCommit ==
    (pc = "done" /\ ~IsIsoFormat(args.date)) =>
        /\ exit.code # 0
        /\ history = history0
        /\ ~Called("git commit")

\* --all staged a file before the date 2023-02-29 was refused.
C14_StagedBeforeBadDate ==
    /\ pc = "done"
    /\ args.date.date = <<2023, 2, 29>>
    /\ args.all
    /\ exit = SysExit("bad date")
    /\ index0 = {}
    /\ index = {PathA}

\* The positions in the log of the calls of an operation.
CallsOf(op) == {n \in DOMAIN calls : calls[n].op = op}

\* C15: with both --files and --all the run ends with a non-zero status before
\* anything is staged or committed; with at most one of them, exactly the
\* matching staging action (git add of the listed files, git add -A, or none)
\* is performed, once, before the staged-changes check.
C15_StagingInstruction ==
    LET both == args.files # <<>> /\ args.all
        adds == CallsOf("git add --")
        addAlls == CallsOf("git add -A")
        checks == CallsOf("git diff --cached --quiet")
    IN  /\ both =>
             /\ calls = <<>>
             /\ index = index0
             /\ history = history0
             /\ pc = "done" => exit.code # 0
             /\ (pc = "done" /\ args.repo \in {"None", "valid"}) =>
                    exit = SysExit(BothFilesAndAll)
        /\ (~both /\ checks # {}) =>
             /\ Cardinality(checks) = 1
             /\ Cardinality(adds) = (IF args.files # <<>> THEN 1 ELSE 0)
             /\ Cardinality(addAlls) = (IF args.all THEN 1 ELSE 0)
             /\ \A n \in adds \cup addAlls, c \in checks : n < c
             /\ \A n \in adds : calls[n].arg = args.files
             /\ (args.files = <<>> /\ ~args.all /\ ~CommitSucceeded) => index = index0
        /\ ~both =>
             /\ Cardinality(adds) <= (IF args.files # <<>> THEN 1 ELSE 0)
             /\ Cardinality(addAlls) <= (IF args.all THEN 1 ELSE 0)

\* Both were given in a repository with changes: the run stopped at once.
C15_Witness ==
    /\ pc = "done"
    /\ args.files = <<PathA, PathB>>
    /\ args.all
    /\ worktree = CwdPaths
    /\ exit = SysExit(BothFilesAndAll)

\* --files alone: the listed files were staged once, then the check ran.
C15_WitnessFiles ==
    /\ args.files = <<PathA, PathB>>
    /\ ~args.all
    /\ worktree0 = CwdPaths
    /\ index = CwdPaths
    /\ CallsOf("git add --") = {1}
    /\ CallsOf("git diff --cached --quiet") = {2}

(***************************************************************************)
(* commit_by_date.py                                                       *)
(***************************************************************************)
MaxFiles == 5
MaxDate == 4

\* Code points, for the order in which Python sorts text.
Ord(c) ==
    CASE c = " " -> 32
      [] c = "!" -> 33
      [] c = "-" -> 45
      [] c \in {"0", "1", "2", "3", "4", "5", "6", "7", "8", "9"} ->
             48 + (CHOOSE n \in 0 .. 9 : DigitChar(n) = c)
      [] c = "?" -> 63
      [] c = "A" -> 65
      [] c = "C" -> 67
      [] c = "M" -> 77
      [] c = "R" -> 82
      [] c = "a" -> 97
      [] c = "b" -> 98
      [] c = "c" -> 99
      [] c = "d" -> 100
      [] c = "e" -> 101
      [] c = "f" -> 102
      [] c = "g" -> 103
      [] OTHER -> 120

\* a < b for two str values
RECURSIVE LexLess(_, _)
LexLess(a, b) ==
    IF a = <<>> THEN b # <<>>
    ELSE IF b = <<>> THEN FALSE
    ELSE IF Head(a) = Head(b) THEN LexLess(Tail(a), Tail(b))
    ELSE Ord(Head(a)) < Ord(Head(b))

\* sorted(set(...))
RECURSIVE SortedSet(_)
SortedSet(S) ==
    IF S = {} THEN <<>>
    ELSE LET least == CHOOSE x \in S : \A y \in S : x = y \/ LexLess(x, y)
         IN  <<least>> \o SortedSet(S \ {least})

\* The files a working tree may hold changes of; git reports the tracked ones
\* (modified) before the untracked ones.
AllPaths ==
    << <<"b">>, <<"a">>, <<"d">>, <<"c", " ", "x">>, <<"f">>, <<"e">>, <<"g">> >>
PathPool == {AllPaths[n] : n \in 1 .. MaxFiles}
TrackedPaths == {<<"b">>, <<"d">>, <<"f">>}

StatusRecord(path) ==
    (IF path \in TrackedPaths THEN <<" ", "M", " ">> ELSE <<"?", "?", " ">>) \o path

\* stdout of `git status --porcelain=v1 -z`, split at NUL: one record per
\* path, and the empty text after the last NUL.
GitStatusEntries(changed) ==
    LET tracked == SortedSet(changed \cap TrackedPaths)
        untracked == SortedSet(changed \ TrackedPaths)
        paths == tracked \o untracked
    IN  [n \in DOMAIN paths |-> StatusRecord(paths[n])] \o << <<>> >>

\* entry[:n] and entry[n:]
Prefix(text, n) == SubSeq(text, 1, IF n < Len(text) THEN n ELSE Len(text))
Suffix(text, n) == SubSeq(text, n + 1, Len(text))

StartsWith(text, c) == text # <<>> /\ Head(text) = c

\* The while loop of parse_uncommitted_files from position n (1-based).
RECURSIVE ParseEntries(_, _, _)
ParseEntries(entries, n, acc) ==
    IF n > Len(entries) THEN acc
    ELSE LET entry == entries[n]
             status == Prefix(entry, 2)
             renamed == /\ StartsWith(status, "R") \/ StartsWith(status, "C")
                        /\ n + 1 <= Len(entries)
                        /\ entries[n + 1] # <<>>
             path == IF renamed THEN entries[n + 1] ELSE Suffix(entry, 3)
             next == IF renamed THEN n + 2 ELSE n + 1
             cleaned == Strip(path)
         IN  IF entry = <<>> THEN ParseEntries(entries, n + 1, acc)
             ELSE IF StartsWith(status, "!") THEN ParseEntries(entries, next, acc)
             ELSE IF cleaned # <<>>
             THEN ParseEntries(entries, next, Append(acc, cleaned))
             ELSE ParseEntries(entries, next, acc)

parse_uncommitted_files(entries) == SortedSet(Range(ParseEntries(entries, 1, <<>>)))

\* date.isoformat(): the fields of the YYYY-MM-DD text of a date.
IsoFormat(d) == <<d.year, d.month, d.day>>

\* What the operator may type at a date prompt, as the numeric fields of the
\* text: nothing, a day that is not in the calendar, the MaxDate days from
\* 2024-02-27 on, and three days of the year 1.
DateInputs ==
    {<<>>, <<2024, 2, 30>>}
      \cup {IsoFormat(DatePlusDays([year |-> 2024, month |-> 2, day |-> 26], d)) :
                d \in 1 .. MaxDate}
      \cup {<<1, 2, 2>>, <<1, 2, 3>>, <<1, 2, 4>>}

\* The end dates tried after a start date: the texts that are no date, and the
\* dates at most MaxDate days away from the start.
EndInputs(first) ==
    {raw \in DateInputs :
        IsCalendarDate(raw) =>
            LET away == ToOrdinal([year |-> raw[1], month |-> raw[2], day |-> raw[3]])
                            - ToOrdinal(first)
            IN  away \in (0 - MaxDate) .. MaxDate}

\* date.fromisoformat accepts the text, or raises ValueError.
IsIsoDate(raw) == IsCalendarDate(raw)

\* date.fromisoformat(raw)
DateFromIsoFormat(raw) == [year |-> raw[1], month |-> raw[2], day |-> raw[3]]

\* end < start for two dates
DateLess(a, b) ==
    \/ a.year < b.year
    \/ a.year = b.year /\ a.month < b.month
    \/ a.year = b.year /\ a.month = b.month /\ a.day < b.day

\* build_dates: the days from start to end, both included.
build_dates(first, last) ==
    [offset \in 1 .. (ToOrdinal(last) - ToOrdinal(first)) + 1 |->
        DatePlusDays(first, offset - 1)]

\* quota = base + (1 if i < extra else 0), i counting from 0
QuotaNoExtra(n, base, extra) == base

Quota(n, base, extra) == base + (IF n < extra THEN 1 ELSE 0)

\* The for loop of build_plan from the date at position n (0-based): idx is the
\* number of files placed so far.
RECURSIVE PlanLoop(_, _, _, _, _, _, _)
PlanLoop(fs, ds, base, extra, n, idx, acc) ==
    IF n >= Len(ds) THEN acc
    ELSE LET quota == Quota(n, base, extra)
         IN  PlanLoop(fs, ds, base, extra, n + 1, idx + quota,
                      acc \o [q \in 1 .. quota |-> <<fs[idx + q], ds[n + 1]>>])

\* list(zip(fs, ds))
ZipFirstDate(fs, ds) == [n \in 1 .. Len(fs) |-> <<fs[n], ds[1]>>]

Zip(fs, ds) ==
    [n \in 1 .. (IF Len(fs) < Len(ds) THEN Len(fs) ELSE Len(ds)) |-> <<fs[n], ds[n]>>]

build_plan(fs, ds) ==
    IF Len(ds) >= Len(fs)
    THEN Zip(fs, Prefix(ds, Len(fs)))
    ELSE PlanLoop(fs, ds, Len(fs) \div Len(ds), Len(fs) % Len(ds), 0, 0, <<>>)

\* commit_file_on_date: 12:00:00 on the day, in both variables.
CommitFileEnv(commit_date) ==
    LET date_str == Strftime([year |-> commit_date.year, month |-> commit_date.month,
                              day |-> commit_date.day, hour |-> 12, minute |-> 0,
                              second |-> 0, microsecond |-> 0, tzinfo |-> <<>>])
    IN  [GIT_AUTHOR_DATE |-> date_str, GIT_COMMITTER_DATE |-> date_str]

\* f"Auto commit for {file_path}"
AutoCommitMessage(file_path) == <<"Auto commit for", file_path>>

\* The text of sys.exit when git commit failed; it names the file.
CommitFailedMessageNoFile(file_path) == <<"commit failed for", <<>> >>

CommitFailedMessage(file_path) == <<"commit failed for", file_path>>

\* The text of the CalledProcessError a failed git add raises: it quotes the
\* command, whose last word is the file.
AddFailedMessage(file_path) == <<"Command git add -- returned non-zero", file_path>>

IndexNotClean == "index not clean"
EndBeforeStart == "end before start"
NoFiles == "no uncommitted files"
Cancelled == "cancelled"

CbdInit ==
    /\ pc = "resolve_repo"
    /\ exit = Running
    /\ calls = <<>>
    /\ history = <<>>
    /\ history0 = history
    /\ worktree \in SUBSET PathPool
    /\ index \in {{}, {<<"s">>}}
    /\ args \in [repo : RepoArgs, TZ : TimeZones]
    /\ start = None /\ end = None /\ dates = <<>> /\ files = <<>>
    /\ plan = <<>> /\ step = 0 /\ status_out = <<>>
    /\ CwdIdle /\ CcmIdle /\ RcmIdle /\ ChIdle /\ GsIdle /\ GcIdle
    /\ Started

\* main, lines 251-254.
CbdResolveRepo ==
    /\ pc = "resolve_repo"
    /\ IF args.repo \in {"invalid", "outside"}
       THEN pc' = "done" /\ exit' = SysExit("no repository")
       ELSE pc' = "ensure_clean_index" /\ UNCHANGED exit
    /\ UNCHANGED <<calls, history, history0, index, worktree, args>>
    /\ UNCHANGED <<cwdVars, cbdVars, ccmVars, rcmVars, chVars, gsVars, gcVars, startVars>>

\* main, line 255: ensure_clean_index.
CbdEnsureCleanIndex ==
    /\ pc = "ensure_clean_index"
    /\ calls' = Append(calls, Call("git diff --cached --name-only", index))
    /\ IF index # {}
       THEN pc' = "done" /\ exit' = SysExit(IndexNotClean)
       ELSE pc' = "read_start" /\ UNCHANGED exit
    /\ UNCHANGED <<history, history0, index, worktree, args>>
    /\ UNCHANGED <<cwdVars, cbdVars, ccmVars, rcmVars, chVars, gsVars, gcVars, startVars>>

\* main, line 257: read_date.
CbdReadStart ==
    /\ pc = "read_start"
    /\ \E raw \in DateInputs :
         /\ calls' = Append(calls, Call("input start", raw))
         /\ IF IsIsoDate(raw)
            THEN pc' = "read_end" /\ start' = DateFromIsoFormat(raw) /\ UNCHANGED exit
            ELSE pc' = "done" /\ exit' = SysExit("bad date") /\ UNCHANGED start
    /\ UNCHANGED <<history, history0, index, worktree, args>>
    /\ UNCHANGED <<end, dates, files, plan, step, status_out>>
    /\ UNCHANGED <<cwdVars, ccmVars, rcmVars, chVars, gsVars, gcVars, startVars>>

\* main, lines 258-259: read_date and build_dates.
CbdReadEnd ==
    /\ pc = "read_end"
    /\ \E raw \in EndInputs(start) :
         /\ calls' = Append(calls, Call("input end", raw))
         /\ IF ~IsIsoDate(raw)
            THEN /\ pc' = "done" /\ exit' = SysExit("bad date")
                 /\ UNCHANGED <<end, dates>>
            ELSE IF DateLess(DateFromIsoFormat(raw), start)
            THEN /\ pc' = "done" /\ exit' = SysExit(EndBeforeStart)
                 /\ end' = DateFromIsoFormat(raw)
                 /\ UNCHANGED dates
            ELSE /\ pc' = "parse_files"
                 /\ end' = DateFromIsoFormat(raw)
                 /\ dates' = build_dates(start, end')
                 /\ UNCHANGED exit
    /\ UNCHANGED <<history, history0, index, worktree, args>>
    /\ UNCHANGED <<start, files, plan, step, status_out>>
    /\ UNCHANGED <<cwdVars, ccmVars, rcmVars, chVars, gsVars, gcVars, startVars>>

\* main, lines 261-265: parse_uncommitted_files and build_plan.
CbdBuildPlan ==
    /\ pc = "parse_files"
    /\ status_out' = GitStatusEntries(worktree)
    /\ calls' = Append(calls, Call("git status --porcelain=v1 -z", status_out'))
    /\ files' = parse_uncommitted_files(status_out')
    /\ IF files' = <<>>
       THEN pc' = "done" /\ exit' = SysExit(NoFiles) /\ UNCHANGED plan
       ELSE IF dates = <<>>
       THEN pc' = "done" /\ exit' = SysExit("no dates") /\ UNCHANGED plan
       ELSE pc' = "confirm" /\ plan' = build_plan(files', dates) /\ UNCHANGED exit
    /\ UNCHANGED <<history, history0, index, worktree, args>>
    /\ UNCHANGED <<start, end, dates, step>>
    /\ UNCHANGED <<cwdVars, ccmVars, rcmVars, chVars, gsVars, gcVars, startVars>>

\* main, line 266: confirm_plan.
CbdConfirm ==
    /\ pc = "confirm"
    /\ \E answer \in Answers :
         /\ calls' = calls \o <<Call("print plan", plan), Call("input confirm", answer)>>
         /\ IF IsYes(answer)
            THEN pc' = "commit" /\ UNCHANGED exit
            ELSE pc' = "done" /\ exit' = SysExit(Cancelled)
    /\ UNCHANGED <<history, history0, index, worktree, args>>
    /\ UNCHANGED <<cwdVars, cbdVars, ccmVars, rcmVars, chVars, gsVars, gcVars, startVars>>

\* main, lines 268-269: commit_file_on_date for the next plan entry.  git add
\* raises CalledProcessError when it fails, which nothing catches; a failed git
\* commit (a hook, no identity, a date git cannot read) ends the run through
\* sys.exit.
CbdCommitFile ==
    /\ pc = "commit"
    /\ step < Len(plan)
    /\ \E wall \in WallClocks, added \in BOOLEAN, accepted \in BOOLEAN :
         LET file_path == plan[step + 1][1]
             commit_date == plan[step + 1][2]
             env == CommitFileEnv(commit_date)
             message == AutoCommitMessage(file_path)
         IN  IF ~added
             THEN /\ calls' = Append(calls, Call("git add --", [path |-> file_path,
                                                               returncode |-> 1]))
                  /\ pc' = "done"
                  /\ exit' = Uncaught(AddFailedMessage(file_path))
                  /\ UNCHANGED <<history, index, worktree, step>>
             ELSE IF ~accepted \/ ~GitDatesValid(env, args.TZ)
             THEN /\ calls' = calls \o
                        <<Call("git add --", [path |-> file_path, returncode |-> 0]),
                          Call("git commit", [path |-> file_path, returncode |-> 1])>>
                  /\ index' = index \cup {file_path}
                  /\ worktree' = worktree \ {file_path}
                  /\ pc' = "done"
                  /\ exit' = SysExit(CommitFailedMessage(file_path))
                  /\ UNCHANGED <<history, step>>
             ELSE /\ calls' = calls \o
                        <<Call("git add --", [path |-> file_path, returncode |-> 0]),
                          Call("git commit", [path |-> file_path, returncode |-> 0])>>
                  /\ history' = Append(history,
                                       GitCommitObject(message, env, wall, args.TZ,
                                                       index \cup {file_path}))
                  /\ index' = {}
                  /\ worktree' = worktree \ {file_path}
                  /\ step' = step + 1
                  /\ UNCHANGED <<pc, exit>>
    /\ UNCHANGED <<history0, args>>
    /\ UNCHANGED <<start, end, dates, files, plan, status_out>>
    /\ UNCHANGED <<cwdVars, ccmVars, rcmVars, chVars, gsVars, gcVars, startVars>>

\* main, line 271.
CbdFinish ==
    /\ pc = "commit"
    /\ step = Len(plan)
    /\ pc' = "done"
    /\ exit' = Success
    /\ UNCHANGED <<calls, history, history0, index, worktree, args>>
    /\ UNCHANGED <<cwdVars, cbdVars, ccmVars, rcmVars, chVars, gsVars, gcVars, startVars>>

CbdNext ==
    \/ CbdResolveRepo
    \/ CbdEnsureCleanIndex
    \/ CbdReadStart
    \/ CbdReadEnd
    \/ CbdBuildPlan
    \/ CbdConfirm
    \/ CbdCommitFile
    \/ CbdFinish

SpecCommitByDate == CbdInit /\ [][CbdNext]_vars

PlanBuilt == pc = "confirm" \/ Called("print plan")

\* The number of plan entries on a day.
FilesOn(day) == Cardinality({n \in DOMAIN plan : plan[n][2] = day})

\* C3: with more files than dates (N > M >= 1) the plan holds every file exactly
\* once, in the order of the sorted file list; the i-th date receives
\* N div M + 1 files when i < N mod M (i from 0) and N div M files otherwise,
\* so the counts differ by at most one and the extra files go to the first
\* N mod M dates.
C3_EvenPlan ==
    LET N == Len(files)
        M == Len(dates)
    IN  (PlanBuilt /\ N > M /\ M >= 1) =>
            /\ Len(plan) = N
            /\ \A k \in 1 .. N : plan[k][1] = files[k]
            /\ \A f \in Range(files) :
                 Cardinality({k \in DOMAIN plan : plan[k][1] = f}) = 1
            /\ \A k \in 1 .. N - 1 : ToOrdinal(plan[k][2]) <= ToOrdinal(plan[k + 1][2])
            /\ \A n \in 1 .. M :
                 FilesOn(DatePlusDays(start, n - 1))
                     = (N \div M) + (IF n - 1 < N % M THEN 1 ELSE 0)
            /\ \A a, b \in 1 .. M :
                 FilesOn(dates[a]) - FilesOn(dates[b]) \in {-1, 0, 1}
            /\ \A n \in DOMAIN plan : plan[n][2] \in Range(dates)

\* Five files over three days: two, two and one.
C3_Witness ==
    /\ PlanBuilt
    /\ Len(files) = 5
    /\ Len(dates) = 3
    /\ FilesOn(dates[1]) = 2
    /\ FilesOn(dates[2]) = 2
    /\ FilesOn(dates[3]) = 1

\* C4: with at most as many files as dates (1 <= N <= M) the plan has N entries,
\* pairs the k-th file of the sorted list with the k-th day of the range, so
\* the days strictly increase along the plan, none is used twice, and the last
\* M - N days are unused.
C4_OneToOnePlan ==
    LET N == Len(files)
        M == Len(dates)
    IN  (PlanBuilt /\ 1 <= N /\ N <= M) =>
            /\ Len(plan) = N
            /\ \A k \in 1 .. N : plan[k] = <<files[k], DatePlusDays(start, k - 1)>>
            /\ \A k \in 1 .. N - 1 : ToOrdinal(plan[k][2]) < ToOrdinal(plan[k + 1][2])
            /\ \A a, b \in DOMAIN plan : plan[a][2] = plan[b][2] => a = b
            /\ \A n \in N + 1 .. M : FilesOn(DatePlusDays(start, n - 1)) = 0

\* Two files and four days: the last two days stay unused.
C4_Witness ==
    /\ PlanBuilt
    /\ Len(files) = 2
    /\ Len(dates) = 4
    /\ plan[2][2] = DatePlusDays(start, 1)
    /\ FilesOn(end) = 0

\* The answers that are y or yes apart from case and surrounding blanks.
YesAnswers == { <<"y">>, <<"Y">>, <<"y", "e", "s">>, <<" ", "Y", "E", "S", "\n">> }

\* The position of the first call of an operation in the log, 0 if there is none.
FirstCall(op) ==
    IF Called(op)
    THEN CHOOSE n \in DOMAIN calls :
             calls[n].op = op /\ \A m \in 1 .. n - 1 : calls[m].op # op
    ELSE 0

\* The n-th call is preceded, in this order, by: the index found empty, a start
\* and an end day that parse with end >= start, a status listing with at
\* least one path, and y/yes given to the displayed plan.
ChecksPrecede(n) ==
    LET a == FirstCall("git diff --cached --name-only")
        b == FirstCall("input start")
        c == FirstCall("input end")
        d == FirstCall("git status --porcelain=v1 -z")
        e == FirstCall("print plan")
        f == FirstCall("input confirm")
    IN  /\ 0 < a /\ a < b /\ b < c /\ c < d /\ d < e /\ e < f /\ f < n
        /\ calls[a].arg = {}
        /\ IsCalendarDate(calls[b].arg)
        /\ IsCalendarDate(calls[c].arg)
        /\ ToOrdinal(DateFromIsoFormat(calls[c].arg))
               >= ToOrdinal(DateFromIsoFormat(calls[b].arg))
        /\ \E k \in DOMAIN calls[d].arg : calls[d].arg[k] # <<>>
        /\ calls[f].arg \in YesAnswers

EndBeforeStartEntered ==
    LET b == FirstCall("input start")
        c == FirstCall("input end")
    IN  /\ 0 < b /\ 0 < c
        /\ IsCalendarDate(calls[b].arg)
        /\ IsCalendarDate(calls[c].arg)
        /\ ToOrdinal(DateFromIsoFormat(calls[c].arg))
               < ToOrdinal(DateFromIsoFormat(calls[b].arg))

\* C5: with an end day before the start day the run fails at the date range and
\* commits nothing; and git add and git commit are issued only after the index
\* was found empty, both days parsed, end >= start, a path was found and the
\* operator answered y or yes to the plan, in this order.
C5_GuardedCommits ==
    /\ EndBeforeStartEntered =>
         /\ pc = "done"
         /\ exit = SysExit(EndBeforeStart)
         /\ history = history0
         /\ ~Called("git add --")
         /\ ~Called("git commit")
    /\ \A n \in DOMAIN calls :
         calls[n].op \in {"git add --", "git commit"} => ChecksPrecede(n)
    /\ history # history0 => Called("git commit")

\* A commit was made after an upper-case, padded YES.
C5_Witness ==
    /\ Len(history) = 2
    /\ \E n \in DOMAIN calls :
         calls[n].op = "input confirm" /\ calls[n].arg = <<" ", "Y", "E", "S", "\n">>

\* The range was refused.
C5_WitnessRange ==
    /\ EndBeforeStartEntered
    /\ pc = "done"
    /\ worktree # {}

\* The commits the run has created, oldest first.
Created == SubSeq(history, Len(history0) + 1, Len(history))

\* 12:00:00 local time on a date, as a moment.
NoonOn(d, tz) == Timestamp(ToOrdinal(d), 12 * 3600 - tz * 60)

\* a <= b for two moments
NotAfter(a, b) == a.days < b.days \/ (a.days = b.days /\ a.secs <= b.secs)

\* C12: on a run where no step fails the commits are created in plan order, one
\* per plan entry; each holds only the file of its entry, has author and
\* committer time 12:00:00 on the entry's date and a message naming the file; so
\* every enumerated file is committed exactly once and the commit dates never
\* decrease along the created history.
C12_PlanExecuted ==
    (pc = "done" /\ exit = Success) =>
        /\ Len(Created) = Len(plan)
        /\ \A k \in DOMAIN plan :
             /\ Created[k].files = {plan[k][1]}
             /\ Created[k].author_date = NoonOn(plan[k][2], args.TZ)
             /\ Created[k].committer_date = NoonOn(plan[k][2], args.TZ)
             /\ Created[k].message = <<"Auto commit for", plan[k][1]>>
        /\ \A f \in Range(files) :
             Cardinality({k \in DOMAIN Created : f \in Created[k].files}) = 1
        /\ \A k \in 1 .. Len(Created) - 1 :
             NotAfter(Created[k].committer_date, Created[k + 1].committer_date)

\* The part of C12 that holds: the same for dates of the years 1970 to 2099.
C12_PlanExecutedPlainYears ==
    (pc = "done" /\ exit = Success /\ start.year \in 1970 .. 2099) =>
        /\ Len(Created) = Len(plan)
        /\ \A k \in DOMAIN plan :
             /\ Created[k].files = {plan[k][1]}
             /\ Created[k].author_date = NoonOn(plan[k][2], args.TZ)
             /\ Created[k].committer_date = NoonOn(plan[k][2], args.TZ)
             /\ Created[k].message = <<"Auto commit for", plan[k][1]>>
        /\ \A f \in Range(files) :
             Cardinality({k \in DOMAIN Created : f \in Created[k].files}) = 1
        /\ \A k \in 1 .. Len(Created) - 1 :
             NotAfter(Created[k].committer_date, Created[k + 1].committer_date)

\* Three files were committed on 2024-02-28, 2024-02-29 and 2024-03-01.
C12_PlainYearsWitness ==
    /\ pc = "done"
    /\ exit = Success
    /\ Len(Created) = 3
    /\ plan[1][2] = [year |-> 2024, month |-> 2, day |-> 28]
    /\ plan[3][2] = [year |-> 2024, month |-> 3, day |-> 1]

\* The file planned for 0001-02-03 was committed at noon of 2003-01-02.
C12_ShortYearCommitted ==
    /\ pc = "done"
    /\ exit = Success
    /\ Len(Created) = 1
    /\ plan[1][2] = [year |-> 1, month |-> 2, day |-> 3]
    /\ Created[1].author_date
           = NoonOn([year |-> 2003, month |-> 1, day |-> 2], args.TZ)

\* The position in the log of a git add or git commit that failed, 0 if none.
FailedAt ==
    IF \E n \in DOMAIN calls :
           calls[n].op \in {"git add --", "git commit"} /\ calls[n].arg.returncode # 0
    THEN CHOOSE n \in DOMAIN calls :
             calls[n].op \in {"git add --", "git commit"} /\ calls[n].arg.returncode # 0
    ELSE 0

\* C13: when staging or committing the k-th plan entry fails, the run ends there
\* with a non-zero status and an error naming the file of that entry; no later
\* entry is staged or committed; and the k - 1 commits made before are still in
\* the history.
C13_AbortOnFailure ==
    FailedAt > 0 =>
        LET k == step + 1
        IN  /\ pc = "done"
            /\ FailedAt = Len(calls)
            /\ calls[FailedAt].arg.path = plan[k][1]
            /\ exit.code # 0
            /\ Len(exit.msg) = 2
            /\ exit.msg[2] = plan[k][1]
            /\ Len(Created) = k - 1
            /\ \A j \in 1 .. k - 1 : Created[j].files = {plan[j][1]}
            /\ \A j \in k + 1 .. Len(plan) :
                 /\ plan[j][1] \in worktree
                 /\ plan[j][1] \notin index
                 /\ \A n \in DOMAIN calls :
                      calls[n].op \in {"git add --", "git commit"} =>
                          calls[n].arg.path # plan[j][1]

\* The commit of the second of three files failed: one commit stays, the third
\* file was never staged.
C13_Witness ==
    /\ pc = "done"
    /\ Len(plan) = 3
    /\ step = 1
    /\ FailedAt > 0
    /\ calls[FailedAt].op = "git commit"
    /\ Len(Created) = 1
    /\ plan[2][1] \in index
    /\ plan[3][1] \in worktree

\* Staging the first file failed.
C13_WitnessAdd ==
    /\ pc = "done"
    /\ FailedAt > 0
    /\ calls[FailedAt].op = "git add --"
    /\ step = 0
    /\ history = history0

(***************************************************************************)
(* parse_uncommitted_files on the outputs git status can print.            *)
(*                                                                         *)
(* A status item is what git reports of one path: its two status letters,  *)
(* the path, and for a rename or a copy the original path.  With -z git    *)
(* prints a rename as the record "R  <destination>" followed by a record   *)
(* holding the original path.                                              *)
(***************************************************************************)
MaxEntries == 7

StatusItems ==
    << [xy |-> <<" ", "M">>, path |-> <<"b">>, orig |-> <<>>],
       [xy |-> <<"R", " ">>, path |-> <<"g">>, orig |-> <<"f">>],
       [xy |-> <<"?", "?">>, path |-> <<"a">>, orig |-> <<>>],
       [xy |-> <<"?", "?">>, path |-> <<"c", " ", "x">>, orig |-> <<>>],
       [xy |-> <<"!", "!">>, path |-> <<"e">>, orig |-> <<>>],
       [xy |-> <<"?", "?">>, path |-> <<" ", "d">>, orig |-> <<>>],
       [xy |-> <<"C", " ">>, path |-> <<"d">>, orig |-> <<"a">>],
       [xy |-> <<"?", "?">>, path |-> <<"x", " ">>, orig |-> <<>>] >>

\* The records git prints for one item.
ItemRecords(item) ==
    IF item.orig = <<>>
    THEN << item.xy \o <<" ">> \o item.path >>
    ELSE << item.xy \o <<" ">> \o item.path, item.orig >>

\* stdout of `git status --porcelain=v1 -z` split at NUL for the items whose
\* positions in StatusItems are in chosen, from position n on.
RECURSIVE PorcelainZ(_, _)
PorcelainZ(chosen, n) ==
    IF n > Len(StatusItems) THEN << <<>> >>
    ELSE (IF n \in chosen THEN ItemRecords(StatusItems[n]) ELSE <<>>)
             \o PorcelainZ(chosen, n + 1)

PufInit ==
    /\ pc = "parse"
    /\ exit = Running
    /\ calls = <<>>
    /\ history = <<>>
    /\ history0 = history
    /\ index = {}
    /\ worktree = {}
    /\ args \in SUBSET (1 .. MaxEntries)
    /\ start = None /\ end = None /\ dates = <<>> /\ files = <<>>
    /\ plan = <<>> /\ step = 0
    /\ status_out = PorcelainZ(args, 1)
    /\ CwdIdle /\ CcmIdle /\ RcmIdle /\ ChIdle /\ GsIdle /\ GcIdle
    /\ Started

\* parse_uncommitted_files, lines 125-157.
PufParse ==
    /\ pc = "parse"
    /\ calls' = Append(calls, Call("git status --porcelain=v1 -z", status_out))
    /\ files' = parse_uncommitted_files(status_out)
    /\ pc' = "done"
    /\ UNCHANGED <<exit, history, history0, index, worktree, args>>
    /\ UNCHANGED <<start, end, dates, plan, step, status_out>>
    /\ UNCHANGED <<cwdVars, ccmVars, rcmVars, chVars, gsVars, gcVars, startVars>>

PufNext == PufParse

SpecParseUncommitted == PufInit /\ [][PufNext]_vars

\* The items git reported in this run.
Reported == {StatusItems[n] : n \in args}

\* The paths the claim expects: of every item that is not ignored, the path as
\* reported; of a rename or copy, the destination.
ExpectedPaths == {item.path : item \in {it \in Reported : it.xy # <<"!", "!">>}}

\* C16: the result of parse_uncommitted_files is sorted and free of duplicates,
\* holds the path of every modified and every untracked entry exactly as
\* reported, blanks included, holds no ignored entry, and for a rename or copy
\* holds the destination and not the original path.
C16_ParsedPaths ==
    pc = "done" =>
        /\ \A k \in 1 .. Len(files) - 1 : LexLess(files[k], files[k + 1])
        /\ Range(files) = ExpectedPaths

\* The part of C16 that holds: the result is sorted and free of duplicates, has
\* no ignored entry, and when no rename or copy is reported and no path begins
\* or ends with a blank, it holds exactly the reported paths.
C16_ParsedPlainPaths ==
    pc = "done" =>
        /\ \A k \in 1 .. Len(files) - 1 : LexLess(files[k], files[k + 1])
        /\ \A item \in Reported :
             (item.xy = <<"!", "!">> /\ item.path \notin ExpectedPaths) =>
                 item.path \notin Range(files)
        /\ (\A item \in Reported :
                item.orig = <<>> /\ Strip(item.path) = item.path) =>
               Range(files) = ExpectedPaths

\* A rename of f to g was reported, and the result holds f and not g.
C16_OriginalReturned ==
    /\ pc = "done"
    /\ args = {1, 2}
    /\ <<"f">> \in Range(files)
    /\ <<"g">> \notin Range(files)

\* The untracked file " d" was reported, and the result holds "d".
C16_BlankStripped ==
    /\ pc = "done"
    /\ 6 \in args
    /\ 7 \notin args
    /\ <<"d">> \in Range(files)
    /\ <<" ", "d">> \notin Range(files)

(***************************************************************************)
(* change_commit_message.py                                                *)
(*                                                                         *)
(* An object name is text; a commit's full name is HashLen characters, and *)
(* git also accepts a prefix of it that no other object shares, and HEAD.  *)
(***************************************************************************)
MaxCommits == 3

AllHashes ==
    << <<"a", "1", "f">>, <<"a", "2", "e">>, <<"b", "c", "d">>,
       <<"c", "0", "0">>, <<"d", "9", "9">> >>
TreeHash == <<"e", "e", "1">>
HeadRef == <<"H", "E", "A", "D">>

\* The history of a repository with n commits, oldest first.
CommitNo(n) ==
    [hash |-> AllHashes[n],
     message |-> <<"m", "s", "g", " ", DigitChar(n), "\n">>,
     author |-> <<"dev", n % 2>>,
     author_date |-> 86400 * n + 7,
     committer_date |-> 86400 * n + 60,
     tree |-> <<"tree", n>>]

HistoryOf(n) == [k \in 1 .. n |-> CommitNo(k)]

IsPrefixOf(p, text) == Len(p) <= Len(text) /\ SubSeq(text, 1, Len(p)) = p

\* The names of the repository's objects: its commits and a tree.
Objects(hist) ==
    {hist[k].hash : k \in DOMAIN hist} \cup (IF hist = <<>> THEN {} ELSE {TreeHash})

\* The objects whose names start with the given text.
Matching(name, hist) == {h \in Objects(hist) : IsPrefixOf(name, h)}

\* What git resolves a name to: the object's full name, or <<>>.
GitRevParse(name, hist) ==
    IF name = HeadRef
    THEN IF hist = <<>> THEN <<>> ELSE hist[Len(hist)].hash
    ELSE IF name # <<>> /\ Cardinality(Matching(name, hist)) = 1
    THEN CHOOSE h \in Matching(name, hist) : TRUE
    ELSE <<>>

\* The position in the history of the commit a name resolves to, or 0.
CommitPosition(name, hist) ==
    IF \E k \in DOMAIN hist : hist[k].hash = GitRevParse(name, hist)
    THEN CHOOSE k \in DOMAIN hist : hist[k].hash = GitRevParse(name, hist)
    ELSE 0

\* validate_commit_exists: git cat-file -t succeeds.
validate_always(name, hist) == TRUE

validate_commit_exists(name, hist) == GitRevParse(name, hist) # <<>>

\* " ".join(words)
RECURSIVE Join(_)
Join(words) ==
    IF words = <<>> THEN <<>>
    ELSE IF Len(words) = 1 THEN words[1]
    ELSE words[1] \o <<" ">> \o Join(Tail(words))

\* git status --short prints something.
IsDirty(changed, staged) == changed \cup staged # {}

\* The message filter of rewrite: the shell script that filter-branch runs for
\* every commit, with the commit's full name in GIT_COMMIT and its message on
\* standard input.
MsgFilterNoCat(GIT_COMMIT, env, stdin) ==
    IF GIT_COMMIT = env.TARGET_COMMIT THEN env.TARGET_MESSAGE \o <<"\n">> ELSE <<>>

MsgFilter(GIT_COMMIT, env, stdin) ==
    IF GIT_COMMIT = env.TARGET_COMMIT THEN env.TARGET_MESSAGE \o <<"\n">> ELSE stdin

\* git filter-branch --msg-filter over the history with the ccm filter: every
\* commit keeps author, dates and tree and gets the filter's output as message;
\* a commit whose message or whose ancestor's message changed gets a new name.
RewrittenMessages(hist, env) ==
    [k \in DOMAIN hist |-> MsgFilter(hist[k].hash, env, hist[k].message)]

FilterBranch(hist, messages) ==
    [k \in DOMAIN hist |->
        [hist[k] EXCEPT
            !.message = messages[k],
            !.hash = IF \E j \in 1 .. k : messages[j] # hist[j].message
                     THEN hist[k].hash \o <<"'">>
                     ELSE hist[k].hash]]

IdentArgs ==
    {AllHashes[n] : n \in 1 .. MaxCommits}
      \cup { <<"b">>, <<"a", "1">>, <<"a">>, HeadRef, <<"f", "f", "f">>, TreeHash,
             <<" ">> \o AllHashes[2] \o <<" ">> }

MessageWordArgs ==
    { <<>>,
      << <<"n", "e", "w">> >>,
      << <<"n">>, <<"e", "w">> >>,
      << <<" ">> >>,
      << <<>>, <<>> >>,
      << <<" ", "x">>, <<"y", "\n">> >> }

CcmArgvs == {<<>>} \cup {<<c>> \o w : c \in IdentArgs, w \in MessageWordArgs}

CcmInit ==
    /\ pc = "parse_args"
    /\ exit = Running
    /\ calls = <<>>
    /\ history \in {HistoryOf(n) : n \in 0 .. MaxCommits}
    /\ history0 = history
    /\ worktree \in {{}, {PathA}}
    /\ index \in {{}, {PathB}}
    /\ args \in [argv : CcmArgvs, in_repo : BOOLEAN]
    /\ commit = None /\ new_message = None
    /\ CwdIdle /\ CbdIdle /\ RcmIdle /\ ChIdle /\ GsIdle /\ GcIdle
    /\ Started

\* main, lines 81-88; args.argv is sys.argv[1:].
CcmParseArgs ==
    /\ pc = "parse_args"
    /\ IF Len(args.argv) < 2
       THEN pc' = "done" /\ exit' = SysExit("usage") /\ UNCHANGED <<commit, new_message>>
       ELSE /\ commit' = Strip(args.argv[1])
            /\ new_message' = Strip(Join(Tail(args.argv)))
            /\ IF new_message' = <<>>
               THEN pc' = "done" /\ exit' = SysExit("empty message")
               ELSE pc' = "ensure_clean" /\ UNCHANGED exit
    /\ UNCHANGED <<calls, history, history0, index, worktree, args>>
    /\ UNCHANGED <<cwdVars, cbdVars, rcmVars, chVars, gsVars, gcVars, startVars>>

\* main, line 90: ensure_clean_worktree; outside a repository git status fails
\* and run_git raises.
CcmEnsureClean ==
    /\ pc = "ensure_clean"
    /\ calls' = Append(calls, Call("git status --short", worktree \cup index))
    /\ IF ~args.in_repo
       THEN pc' = "done" /\ exit' = Uncaught("CalledProcessError")
       ELSE IF IsDirty(worktree, index)
       THEN pc' = "done" /\ exit' = SysExit("dirty worktree")
       ELSE pc' = "validate" /\ UNCHANGED exit
    /\ UNCHANGED <<history, history0, index, worktree, args>>
    /\ UNCHANGED <<cwdVars, cbdVars, ccmVars, rcmVars, chVars, gsVars, gcVars, startVars>>

\* main, line 91: validate_commit_exists.
CcmValidate ==
    /\ pc = "validate"
    /\ calls' = Append(calls, Call("git cat-file -t", commit))
    /\ IF validate_commit_exists(commit, history)
       THEN pc' = "rewrite" /\ UNCHANGED exit
       ELSE pc' = "done" /\ exit' = SysExit("commit not found")
    /\ UNCHANGED <<history, history0, index, worktree, args>>
    /\ UNCHANGED <<cwdVars, cbdVars, ccmVars, rcmVars, chVars, gsVars, gcVars, startVars>>

\* subprocess.run(..., check=True) raises CalledProcessError on a non-zero
\* return code.
CheckIgnored(returncode) == TRUE

CheckPassed(returncode) == returncode = 0

\* main, line 92: rewrite.  filter-branch replaces the branch only when it
\* ends well.
CcmRewrite ==
    /\ pc = "rewrite"
    /\ \E returncode \in {0, 1} :
         LET env == [TARGET_COMMIT |-> commit, TARGET_MESSAGE |-> new_message]
         IN  /\ calls' = Append(calls, Call("git filter-branch",
                                            [returncode |-> returncode]))
             /\ IF CheckPassed(returncode)
                THEN /\ history' = FilterBranch(history, RewrittenMessages(history, env))
                     /\ pc' = "ask_push"
                     /\ UNCHANGED exit
                ELSE /\ pc' = "done"
                     /\ exit' = SysExit("filter-branch failed")
                     /\ UNCHANGED history
    /\ UNCHANGED <<history0, index, worktree, args>>
    /\ UNCHANGED <<cwdVars, cbdVars, ccmVars, rcmVars, chVars, gsVars, gcVars, startVars>>

\* main, lines 95-104: the optional push.
CcmAskPush ==
    /\ pc = "ask_push"
    /\ \E answer \in Answers, pushed \in BOOLEAN :
         IF IsYes(answer)
         THEN /\ calls' = calls \o
                    <<Call("input push", answer),
                      Call("git push --force-with-lease",
                           [returncode |-> IF pushed THEN 0 ELSE 1])>>
              /\ exit' = IF pushed THEN Success ELSE SysExit("push failed")
         ELSE /\ calls' = Append(calls, Call("input push", answer))
              /\ exit' = Success
    /\ pc' = "done"
    /\ UNCHANGED <<history, history0, index, worktree, args>>
    /\ UNCHANGED <<cwdVars, cbdVars, ccmVars, rcmVars, chVars, gsVars, gcVars, startVars>>

CcmNext ==
    \/ CcmParseArgs
    \/ CcmEnsureClean
    \/ CcmValidate
    \/ CcmRewrite
    \/ CcmAskPush

SpecChangeCommitMessage == CcmInit /\ [][CcmNext]_vars

FilterBranchSucceeded ==
    \E n \in DOMAIN calls :
        calls[n].op = "git filter-branch" /\ calls[n].arg.returncode = 0

SameButMessage(c, d) ==
    /\ c.author = d.author
    /\ c.author_date = d.author_date
    /\ c.committer_date = d.committer_date
    /\ c.tree = d.tree

\* C6: after the rewrite every commit other than the one the identifier names
\* has the message, author, timestamps and tree it had before, and every commit
\* keeps its tree.
C6_OthersUntouched ==
    (pc # "parse_args" /\ FilterBranchSucceeded) =>
        /\ Len(history) = Len(history0)
        /\ \A k \in DOMAIN history0 :
             /\ history[k].tree = history0[k].tree
             /\ k # CommitPosition(commit, history0) =>
                  /\ history[k].message = history0[k].message
                  /\ SameButMessage(history[k], history0[k])

\* The middle commit of three was given the new text; its neighbours were not.
C6_Witness ==
    /\ FilterBranchSucceeded
    /\ Len(history0) = 3
    /\ CommitPosition(commit, history0) = 2
    /\ history[2].message # history0[2].message
    /\ history[1] = history0[1]
    /\ history[3].message = history0[3].message
    /\ history[3].hash # history0[3].hash

\* C7: for every identifier that names a commit of the branch (full hash,
\* abbreviated hash or another name) and every non-empty message, a run whose
\* rewrite reported success left the named commit with the new text.
C7_TargetRewritten ==
    (pc \in {"ask_push", "done"} /\ FilterBranchSucceeded
        /\ CommitPosition(commit, history0) > 0) =>
        Strip(history[CommitPosition(commit, history0)].message) = new_message

\* The part of C7 the code keeps: an identifier that is the full hash.
C7_FullHashRewritten ==
    (pc \in {"ask_push", "done"} /\ FilterBranchSucceeded
        /\ \E k \in DOMAIN history0 : history0[k].hash = commit) =>
        Strip(history[CommitPosition(commit, history0)].message) = new_message

\* The message arguments that are empty after trimming, and the dirty trees.
BlankMessageArgs == { << <<" ">> >>, << <<>>, <<>> >> }

CcmBadInput ==
    \/ worktree # {} \/ index # {}
    \/ Len(args.argv) >= 1 /\ GitRevParse(Strip(args.argv[1]), history0) = <<>>
    \/ Len(args.argv) >= 1 /\ Tail(args.argv) \in BlankMessageArgs

\* C8: with pending changes, an identifier that names no object, or a blank
\* message, the run ends with a non-zero exit status and neither filter-branch
\* nor push is started; and the rewrite starts only after both checks ran.
C8_ChecksBeforeRewrite ==
    /\ CcmBadInput =>
         /\ ~Called("git filter-branch")
         /\ ~Called("git push --force-with-lease")
         /\ history = history0
         /\ pc \in {"parse_args", "ensure_clean", "validate", "done"}
         /\ pc = "done" => exit.code > 0
    /\ Called("git filter-branch") =>
         /\ 0 < FirstCall("git status --short")
         /\ FirstCall("git status --short") < FirstCall("git cat-file -t")
         /\ FirstCall("git cat-file -t") < FirstCall("git filter-branch")

\* A clean tree and a good message, but a name no object has.
C8_Witness ==
    /\ pc = "done"
    /\ exit.code = 1
    /\ Called("git cat-file -t")
    /\ worktree = {} /\ index = {}
    /\ new_message = <<"n", "e", "w">>
    /\ commit = <<"a">>
    /\ Len(history0) = 3

(***************************************************************************)
(* rewrite_commit_messages.py                                              *)
(***************************************************************************)
\* What the operator may type as a commit's new text.
Responses == { <<>>, <<" ">>, <<"x">>, <<" ", "y", "\n">> }

EmptyMapping == [h \in {} |-> <<>>]

\* mapping[commit] = new_msg
MapPut(m, key, value) ==
    [h \in DOMAIN m \cup {key} |-> IF h = key THEN value ELSE m[h]]

\* json.dumps(mapping): the members in the order of insertion, which is the
\* order of the commits; json.loads builds the dict again.
JsonDumps(m, order) ==
    LET keys == SelectSeq(order, LAMBDA h : h \in DOMAIN m)
    IN  [n \in DOMAIN keys |-> <<keys[n], m[keys[n]]>>]

JsonLoads(text) ==
    [h \in {text[n][1] : n \in DOMAIN text} |->
        text[CHOOSE n \in DOMAIN text :
                 text[n][1] = h /\ \A later \in n + 1 .. Len(text) : text[later][1] # h][2]]

\* What sys.stdin.read() returns in the filter.  `python3 - <<'PY'` gives the
\* interpreter the here-document as standard input in place of the commit
\* message; the interpreter reads the program from it to the end, and the
\* program's own read finds nothing left.
StdinOfProgram(message) == <<>>

\* The message filter of rewrite_history, run for one commit.
MapFilter(GIT_COMMIT, MESSAGE_MAP, message) ==
    LET loaded == JsonLoads(MESSAGE_MAP)
        old_msg == StdinOfProgram(message)
    IN  IF GIT_COMMIT \in DOMAIN loaded THEN loaded[GIT_COMMIT] ELSE old_msg

MapRewrittenMessages(hist, MESSAGE_MAP) ==
    [k \in DOMAIN hist |-> MapFilter(hist[k].hash, MESSAGE_MAP, hist[k].message)]

\* confirm: what it does with the mapping and the operator's answer.
confirm_unasked(m, answer) == IF DOMAIN m = {} THEN "no new messages" ELSE "go"

confirm(m, answer) ==
    IF DOMAIN m = {} THEN "no new messages"
    ELSE IF ~IsYes(answer) THEN "cancelled"
    ELSE "go"

RcmInit ==
    /\ pc = "ensure_clean"
    /\ exit = Running
    /\ calls = <<>>
    /\ history \in {HistoryOf(n) : n \in 0 .. MaxCommits}
    /\ history0 = history
    /\ worktree \in {{}, {PathA}}
    /\ index \in {{}, {PathB}}
    /\ args \in [in_repo : BOOLEAN]
    /\ commits = <<>> /\ mapping = EmptyMapping /\ i = 0
    /\ CwdIdle /\ CbdIdle /\ CcmIdle /\ ChIdle /\ GsIdle /\ GcIdle
    /\ Started

\* main, line 104: ensure_clean_worktree.
RcmEnsureClean ==
    /\ pc = "ensure_clean"
    /\ calls' = Append(calls, Call("git status --short", worktree \cup index))
    /\ IF ~args.in_repo
       THEN pc' = "done" /\ exit' = Uncaught("CalledProcessError")
       ELSE IF IsDirty(worktree, index)
       THEN pc' = "done" /\ exit' = SysExit("dirty worktree")
       ELSE pc' = "list_commits" /\ UNCHANGED exit
    /\ UNCHANGED <<history, history0, index, worktree, args>>
    /\ UNCHANGED <<cwdVars, cbdVars, ccmVars, rcmVars, chVars, gsVars, gcVars, startVars>>

\* main, line 105: list_commits.  With no commit HEAD names nothing, git
\* rev-list fails and run_git raises.
RcmListCommits ==
    /\ pc = "list_commits"
    /\ calls' = Append(calls, Call("git rev-list --reverse HEAD", <<>>))
    /\ IF history = <<>>
       THEN pc' = "done" /\ exit' = Uncaught("CalledProcessError") /\ UNCHANGED commits
       ELSE pc' = "collect" /\ commits' = [k \in DOMAIN history |-> history[k].hash]
            /\ UNCHANGED exit
    /\ UNCHANGED <<history, history0, index, worktree, args>>
    /\ UNCHANGED <<mapping, i>>
    /\ UNCHANGED <<cwdVars, cbdVars, ccmVars, chVars, gsVars, gcVars, startVars>>

\* collect_new_messages: one turn of the loop.
RcmPrompt ==
    /\ pc = "collect"
    /\ i < Len(commits)
    /\ \E response \in Responses :
         LET new_msg == Strip(response)
         IN  /\ calls' = Append(calls, Call("input message",
                                            [commit |-> commits[i + 1],
                                             response |-> response]))
             /\ mapping' = IF new_msg # <<>>
                           THEN MapPut(mapping, commits[i + 1], new_msg)
                           ELSE mapping
    /\ i' = i + 1
    /\ UNCHANGED <<pc, exit, history, history0, index, worktree, args, commits>>
    /\ UNCHANGED <<cwdVars, cbdVars, ccmVars, chVars, gsVars, gcVars, startVars>>

\* main, line 107: confirm, after the loop.
RcmConfirm ==
    /\ pc = "collect"
    /\ i = Len(commits)
    /\ \E answer \in Answers :
         /\ calls' = IF DOMAIN mapping = {}
                     THEN calls
                     ELSE calls \o <<Call("print changes", JsonDumps(mapping, commits)),
                                     Call("input confirm", answer)>>
         /\ IF confirm(mapping, answer) = "go"
            THEN pc' = "rewrite" /\ UNCHANGED exit
            ELSE pc' = "done" /\ exit' = SysExit(confirm(mapping, answer))
    /\ UNCHANGED <<history, history0, index, worktree, args>>
    /\ UNCHANGED <<cwdVars, cbdVars, ccmVars, rcmVars, chVars, gsVars, gcVars, startVars>>

\* main, line 108: rewrite_history.
RcmRewrite ==
    /\ pc = "rewrite"
    /\ \E worked \in BOOLEAN :
         LET MESSAGE_MAP == JsonDumps(mapping, commits)
         IN  /\ calls' = Append(calls, Call("git filter-branch",
                                            [returncode |-> IF worked THEN 0 ELSE 1]))
             /\ IF worked
                THEN /\ history' = FilterBranch(history,
                                                MapRewrittenMessages(history, MESSAGE_MAP))
                     /\ exit' = Success
                ELSE /\ exit' = SysExit("filter-branch failed")
                     /\ UNCHANGED history
    /\ pc' = "done"
    /\ UNCHANGED <<history0, index, worktree, args>>
    /\ UNCHANGED <<cwdVars, cbdVars, ccmVars, rcmVars, chVars, gsVars, gcVars, startVars>>

RcmNext ==
    \/ RcmEnsureClean
    \/ RcmListCommits
    \/ RcmPrompt
    \/ RcmConfirm
    \/ RcmRewrite

SpecRewriteCommitMessages == RcmInit /\ [][RcmNext]_vars

\* The prompts for new text, in the order they were shown.
Prompts == SelectSeq(calls, LAMBDA c : c.op = "input message")

BlankResponses == { <<>>, <<" ">> }

CollectDone == pc \in {"rewrite", "done"} /\ commits # <<>> /\ i = Len(commits)

\* The first two parts of C9: one prompt per commit, oldest first, and the
\* mapping holds exactly the commits with a non-blank response, each with its
\* response (trimmed).
C9_MappingBuilt ==
    CollectDone =>
        /\ Len(Prompts) = Len(history0)
        /\ \A k \in DOMAIN history0 : Prompts[k].arg.commit = history0[k].hash
        /\ DOMAIN mapping =
             {Prompts[k].arg.commit : k \in {n \in DOMAIN Prompts :
                                                Prompts[n].arg.response \notin BlankResponses}}
        /\ \A k \in DOMAIN Prompts :
             Prompts[k].arg.commit \in DOMAIN mapping =>
                mapping[Prompts[k].arg.commit] = Strip(Prompts[k].arg.response)

\* The part of the rewrite C9 gets right: a commit in the mapping carries its
\* mapped text afterwards.
C9_MappedRewritten ==
    (pc = "done" /\ FilterBranchSucceeded) =>
        \A k \in DOMAIN history0 :
            history0[k].hash \in DOMAIN mapping =>
                history[k].message = mapping[history0[k].hash]

\* C9: the script prompts once per commit, oldest first; the mapping holds
\* exactly the commits with a non-blank response, each with its response; and
\* after the rewrite every commit of the mapping carries its mapped text while
\* every other commit keeps its original message.
C9_RewriteByMapping ==
    /\ C9_MappingBuilt
    /\ (pc = "done" /\ FilterBranchSucceeded) =>
         /\ Len(history) = Len(history0)
         /\ \A k \in DOMAIN history0 :
              IF history0[k].hash \in DOMAIN mapping
              THEN history[k].message = mapping[history0[k].hash]
              ELSE history[k].message = history0[k].message

AllResponsesBlank ==
    /\ CollectDone \/ (pc = "collect" /\ i = Len(commits))
    /\ \A k \in DOMAIN Prompts : Prompts[k].arg.response \in BlankResponses

ConfirmRefused ==
    /\ Called("input confirm")
    /\ calls[FirstCall("input confirm")].arg \notin YesAnswers

\* C10: filter-branch starts only after the pending changes were listed and the
\* operator answered y or yes; with a dirty tree, no commit, only blank
\* responses or any other answer the run ends without starting the rewrite.
C10_ConfirmedRewrite ==
    /\ Called("git filter-branch") =>
         /\ 0 < FirstCall("print changes")
         /\ FirstCall("print changes") < FirstCall("input confirm")
         /\ FirstCall("input confirm") < FirstCall("git filter-branch")
         /\ calls[FirstCall("input confirm")].arg \in YesAnswers
         /\ calls[FirstCall("print changes")].arg # <<>>
    /\ (worktree # {} \/ index # {} \/ history0 = <<>> \/ AllResponsesBlank
            \/ ConfirmRefused) =>
         /\ ~Called("git filter-branch")
         /\ history = history0
         /\ pc # "rewrite"
    /\ ConfirmRefused => pc = "done" /\ exit.code = 1

\* Two commits were to be changed and the operator typed "ye".
C10_Witness ==
    /\ pc = "done"
    /\ Cardinality(DOMAIN mapping) = 2
    /\ Called("print changes")
    /\ calls[FirstCall("input confirm")].arg = <<"y", "e">>
    /\ exit.code = 1

(***************************************************************************)
(* clear_history.py                                                        *)
(*                                                                         *)
(* git_dir is what the current directory holds at .git: nothing, the       *)
(* repository directory, a file (a linked work tree), the remains of a     *)
(* repository directory whose removal stopped part-way, or the directory   *)
(* git init has just made.  worktree is the set of files of the directory  *)
(* outside .git.                                                           *)
(***************************************************************************)
GitDirs == {"absent", "repository", "file"}

\* What the operator may type at the (yes/no) prompt.
ChResponses ==
    { <<"y", "e", "s">>, <<"y">>, <<" ", "Y", "E", "S", "\n">>,
      <<"U+0434", "U+0430">>, <<"U+0414">>, <<"U+0414", "U+0410", " ">>,
      <<>>, <<"n", "o">>, <<"y", "e">>, <<"U+0430">> }

\* response in ['yes', 'y', 'да', 'д'] after strip().lower()
Affirmative == {<<"y", "e", "s">>, <<"y">>, <<"U+0434", "U+0430">>, <<"U+0434">>}

ChIsYesAlways(raw) == TRUE

ChIsYes(raw) == Lower(Strip(raw)) \in Affirmative

\* How far shutil.rmtree gets: it removes the directory, or raises after
\* removing some or none of its entries.
RmtreeOutcomes == {"removed", "partly", "refused"}

ChInit ==
    /\ pc = "check_git_dir"
    /\ exit = Running
    /\ calls = <<>>
    /\ git_dir \in GitDirs
    /\ history \in {IF git_dir = "repository" THEN HistoryOf(n) ELSE <<>> :
                        n \in 0 .. MaxCommits}
    /\ history0 = history
    /\ worktree \in SUBSET CwdPaths
    /\ index \in {IF git_dir = "repository" THEN staged ELSE {} :
                      staged \in SUBSET worktree}
    /\ args = <<>>
    /\ returned = None
    /\ CwdIdle /\ CbdIdle /\ CcmIdle /\ RcmIdle /\ GsIdle /\ GcIdle
    /\ Started

\* The process ends: __main__ drops what clear_git_history returned, so the
\* exit status is 0.
ChReturn(value) ==
    /\ returned' = value
    /\ pc' = "done"
    /\ exit' = Success

\* clear_git_history, lines 14-19.
ChCheckGitDir ==
    /\ pc = "check_git_dir"
    /\ calls' = Append(calls, Call("os.path.exists", git_dir))
    /\ IF git_dir = "absent"
       THEN ChReturn(FALSE)
       ELSE pc' = "confirm" /\ UNCHANGED <<returned, exit>>
    /\ UNCHANGED <<history, history0, index, worktree, args, git_dir>>
    /\ UNCHANGED <<cwdVars, cbdVars, ccmVars, rcmVars, gsVars, gcVars, startVars>>

\* clear_git_history, lines 21-28.
ChConfirm ==
    /\ pc = "confirm"
    /\ \E response \in ChResponses :
         /\ calls' = Append(calls, Call("input confirm", response))
         /\ IF ChIsYes(response)
            THEN pc' = "rmtree" /\ UNCHANGED <<returned, exit>>
            ELSE ChReturn(FALSE)
    /\ UNCHANGED <<history, history0, index, worktree, args, git_dir>>
    /\ UNCHANGED <<cwdVars, cbdVars, ccmVars, rcmVars, gsVars, gcVars, startVars>>

\* clear_git_history, lines 31-34 and 50-54: shutil.rmtree(git_dir); what it
\* raises is caught and reported.
ChRmtree ==
    /\ pc = "rmtree"
    /\ \E outcome \in RmtreeOutcomes :
         /\ calls' = Append(calls, Call("shutil.rmtree", outcome))
         /\ IF git_dir = "file" \/ outcome = "refused"
            THEN /\ ChReturn(FALSE)
                 /\ UNCHANGED <<git_dir, history, index>>
            ELSE IF outcome = "partly"
            THEN /\ ChReturn(FALSE)
                 /\ git_dir' = "partial"
                 /\ history' = <<>>
                 /\ index' = {}
            ELSE /\ pc' = "git_init"
                 /\ git_dir' = "absent"
                 /\ history' = <<>>
                 /\ index' = {}
                 /\ UNCHANGED <<returned, exit>>
    /\ UNCHANGED <<history0, worktree, args>>
    /\ UNCHANGED <<cwdVars, cbdVars, ccmVars, rcmVars, gsVars, gcVars, startVars>>

\* clear_git_history, lines 37-39 and 50-54: git init with check=True.
ChGitInit ==
    /\ pc = "git_init"
    /\ \E ok \in BOOLEAN :
         /\ calls' = Append(calls, Call("git init", [returncode |-> IF ok THEN 0 ELSE 1]))
         /\ IF ok
            THEN pc' = "git_status" /\ git_dir' = "fresh" /\ UNCHANGED <<returned, exit>>
            ELSE ChReturn(FALSE) /\ UNCHANGED git_dir
    /\ UNCHANGED <<history, history0, index, worktree, args>>
    /\ UNCHANGED <<cwdVars, cbdVars, ccmVars, rcmVars, gsVars, gcVars, startVars>>

\* clear_git_history, lines 42-48: git status is printed whatever it returns.
ChGitStatus ==
    /\ pc = "git_status"
    /\ calls' = Append(calls, Call("git status", worktree))
    /\ ChReturn(TRUE)
    /\ UNCHANGED <<history, history0, index, worktree, args, git_dir>>
    /\ UNCHANGED <<cwdVars, cbdVars, ccmVars, rcmVars, gsVars, gcVars, startVars>>

ChNext ==
    \/ ChCheckGitDir
    \/ ChConfirm
    \/ ChRmtree
    \/ ChGitInit
    \/ ChGitStatus

SpecClearHistory == ChInit /\ [][ChNext]_vars

\* What was at .git when the script started.
GitDirAtStart == calls[1].arg

\* Some or all of the repository's metadata is gone.
MetadataDeleted ==
    /\ calls # <<>>
    /\ GitDirAtStart = "repository"
    /\ git_dir # "repository"

\* The answers that are yes, y, da or de apart from case and surrounding blanks.
AffirmativeAnswers ==
    { <<"y", "e", "s">>, <<"y">>, <<" ", "Y", "E", "S", "\n">>,
      <<"U+0434", "U+0430">>, <<"U+0414">>, <<"U+0414", "U+0410", " ">> }

AnsweredYes ==
    \E n \in DOMAIN calls :
        calls[n].op = "input confirm" /\ calls[n].arg \in AffirmativeAnswers

AnsweredOtherwise ==
    \E n \in DOMAIN calls :
        calls[n].op = "input confirm" /\ calls[n].arg \notin AffirmativeAnswers

\* Nothing of the repository or of the directory has changed.
ChUntouched ==
    /\ git_dir = GitDirAtStart
    /\ history = history0
    /\ index = index0
    /\ worktree = worktree0

\* C11: the metadata is deleted only after an affirmative answer; any other
\* answer, or a missing .git, leaves everything untouched; on every path the
\* files outside .git are as they were; and whenever the metadata was deleted
\* the run ends with a freshly initialized repository without commits.
C11_ClearHistory ==
    /\ MetadataDeleted => AnsweredYes
    /\ (calls # <<>> /\ (AnsweredOtherwise \/ GitDirAtStart = "absent")) =>
           ChUntouched /\ pc = "done"
    /\ worktree = worktree0
    /\ (pc = "done" /\ MetadataDeleted) => (git_dir = "fresh" /\ history = <<>>)

\* C11 as amended: the same, but the fresh repository is there whenever the
\* removal and git init both succeeded (the function returned True); when the
\* removal stopped part-way or git init failed, the function returned False and
\* the directory is left with the remains of .git or with none.
C11_ClearHistoryAmended ==
    /\ MetadataDeleted => AnsweredYes
    /\ (calls # <<>> /\ (AnsweredOtherwise \/ GitDirAtStart = "absent")) =>
           ChUntouched /\ pc = "done"
    /\ worktree = worktree0
    /\ (pc = "done" /\ returned = TRUE) =>
           /\ git_dir = "fresh" /\ history = <<>> /\ index = {}
           /\ AnsweredYes
    /\ (pc = "done" /\ MetadataDeleted /\ git_dir # "fresh") =>
           /\ returned = FALSE
           /\ git_dir \in {"absent", "partial"}
           /\ history = <<>>
           /\ \/ Called("shutil.rmtree") /\ git_dir = "partial"
              \/ \E n \in DOMAIN calls :
                     calls[n].op = "git init" /\ calls[n].arg.returncode # 0

\* Three commits were discarded after a capital, padded DA; both files of the
\* directory are still there.
C11_Witness ==
    /\ pc = "done"
    /\ returned = TRUE
    /\ Len(history0) = 3
    /\ history = <<>>
    /\ git_dir = "fresh"
    /\ worktree0 = CwdPaths
    /\ worktree = CwdPaths
    /\ \E n \in DOMAIN calls :
           calls[n].op = "input confirm" /\ calls[n].arg = <<"U+0414", "U+0410", " ">>

\* git init failed after .git was removed.
C11_WitnessNoRepository ==
    /\ pc = "done"
    /\ MetadataDeleted
    /\ git_dir = "absent"
    /\ returned = FALSE

(***************************************************************************)
(* get_stats.py                                                            *)
(*                                                                         *)
(* args.dates holds the author dates of the commits git log lists, newest  *)
(* first; log_lines holds the lines git prints for them.                   *)
(***************************************************************************)
MaxLog == 3

\* The author dates a listed commit may have.
LogDates ==
    { [year |-> 2024, month |-> 12, day |-> 30],
      [year |-> 2024, month |-> 12, day |-> 31],
      [year |-> 2025, month |-> 1, day |-> 2],
      [year |-> 10000, month |-> 1, day |-> 1] }

\* The decimal digits of n, padded with zeros to at least width characters.
RECURSIVE Pad(_, _)
Pad(n, width) ==
    IF n < 10 /\ width <= 1 THEN <<DigitChar(n)>>
    ELSE Pad(n \div 10, width - 1) \o <<DigitChar(n % 10)>>

\* str(date), and the date as git prints it: YYYY-MM-DD, the year with more
\* digits when it needs them.
DateStr(d) == Pad(d.year, 4) \o <<"-">> \o Pad(d.month, 2) \o <<"-">> \o Pad(d.day, 2)

\* A line of `git log --format=%ai`: the date, the time and the zone.
LogLine(d) ==
    DateStr(d) \o <<" ", "1", "2", ":", "3", "4", ":", "5", "6", " ", "+", "0", "7", "0", "0">>

\* line.split()[0] for a line that does not begin with a blank
RECURSIVE FirstWord(_)
FirstWord(line) ==
    IF line = <<>> \/ Head(line) \in Whitespace THEN <<>>
    ELSE <<Head(line)>> \o FirstWord(Tail(line))

IsDigit(c) == c \in {"0", "1", "2", "3", "4", "5", "6", "7", "8", "9"}

DigitValue(c) == CHOOSE n \in 0 .. 9 : DigitChar(n) = c

\* int() of a text of digits
RECURSIVE ParseInt(_)
ParseInt(text) ==
    IF text = <<>> THEN 0
    ELSE ParseInt(SubSeq(text, 1, Len(text) - 1)) * 10 + DigitValue(text[Len(text)])

\* datetime.strptime(text, '%Y-%m-%d').date() for a text with two-digit month
\* and day: %Y is exactly four digits and the whole text must match, else
\* ValueError (ok = FALSE).
Strptime(text) ==
    LET shape == /\ Len(text) = 10
                 /\ text[5] = "-"
                 /\ text[8] = "-"
                 /\ \A n \in DOMAIN text : n \notin {5, 8} => IsDigit(text[n])
        fields == <<ParseInt(SubSeq(text, 1, 4)), ParseInt(SubSeq(text, 6, 7)),
                    ParseInt(SubSeq(text, 9, 10))>>
    IN  IF shape /\ IsCalendarDate(fields)
        THEN [ok |-> TRUE,
              date |-> [year |-> fields[1], month |-> fields[2], day |-> fields[3]]]
        ELSE [ok |-> FALSE, date |-> [year |-> 1, month |-> 1, day |-> 1]]

\* The for loop of get_commit_stats, lines 30-38, over the lines from position
\* n on: counts is commits_by_date, a function from str(date) to a count.
RECURSIVE CountLines(_, _, _)
CountLines(lines, n, counts) ==
    IF n > Len(lines) THEN counts
    ELSE LET line == lines[n]
             parsed == Strptime(FirstWord(line))
             key == DateStr(parsed.date)
         IN  IF line = <<>> \/ ~parsed.ok THEN CountLines(lines, n + 1, counts)
             ELSE IF key \in DOMAIN counts
             THEN CountLines(lines, n + 1, [counts EXCEPT ![key] = @ + 1])
             ELSE CountLines(lines, n + 1,
                             [k \in DOMAIN counts \cup {key} |->
                                 IF k = key THEN 1 ELSE counts[k]])

\* sum(values) and max(values) of a dict
RECURSIVE SumValues(_)
SumValues(counts) ==
    IF DOMAIN counts = {} THEN 0
    ELSE LET k == CHOOSE k \in DOMAIN counts : TRUE
         IN  counts[k] + SumValues([j \in DOMAIN counts \ {k} |-> counts[j]])

MinValue(counts) ==
    CHOOSE v \in {counts[k] : k \in DOMAIN counts} :
        \A k \in DOMAIN counts : counts[k] >= v

MaxValue(counts) ==
    CHOOSE v \in {counts[k] : k \in DOMAIN counts} :
        \A k \in DOMAIN counts : counts[k] <= v

\* The while loop of lines 50-54: the table from current to end_date.
RECURSIVE FillDays(_, _, _, _)
FillDays(counts, current, end_date, table) ==
    IF ToOrdinal(current) > ToOrdinal(end_date) THEN table
    ELSE LET date_str == DateStr(current)
             count == IF date_str \in DOMAIN counts THEN counts[date_str] ELSE 0
         IN  FillDays(counts, DatePlusDays(current, 1), end_date,
                      [k \in DOMAIN table \cup {date_str} |->
                          IF k = date_str THEN count ELSE table[k]])

\* The dict get_commit_stats returns (lines 59-67); {} is <<>>.
StatsOf(counts) ==
    IF DOMAIN counts = {} THEN <<>>
    ELSE LET first == CHOOSE k \in DOMAIN counts :
                          \A j \in DOMAIN counts : k = j \/ LexLess(k, j)
             last == CHOOSE k \in DOMAIN counts :
                         \A j \in DOMAIN counts : k = j \/ LexLess(j, k)
             start_date == Strptime(first).date
             end_date == Strptime(last).date
             table == FillDays(counts, start_date, end_date, <<>>)
         IN  [stats |-> table,
              total_commits |-> SumValues(counts),
              max_commits |-> MaxValue(counts),
              start_date |-> DateStr(start_date),
              end_date |-> DateStr(end_date),
              days_with_commits |-> Cardinality({k \in DOMAIN table : table[k] > 0}),
              total_days |-> Cardinality(DOMAIN table)]

RECURSIVE SeqsUpTo(_, _)
SeqsUpTo(S, n) ==
    IF n = 0 THEN {<<>>}
    ELSE LET shorter == SeqsUpTo(S, n - 1)
         IN  shorter \cup {Append(q, x) : q \in shorter, x \in S}

GsInit ==
    /\ pc = "start"
    /\ exit = Running
    /\ calls = <<>>
    /\ \E authored \in SeqsUpTo(LogDates, MaxLog), repo \in {"valid", "outside"} :
           args = [dates |-> authored, repo |-> repo]
    /\ log_lines = <<>>
    /\ commits_by_date = <<>>
    /\ stats = <<>>
    /\ CwdIdle /\ CbdIdle /\ CcmIdle /\ RcmIdle /\ ChIdle /\ GcIdle
    /\ history = <<>> /\ history0 = history /\ index = {} /\ worktree = {}
    /\ Started

\* Lines 16-25: git log fails outside a repository and in one with no commit.
GsGitLog ==
    /\ pc = "start"
    /\ IF args.repo = "outside" \/ args.dates = <<>>
       THEN /\ calls' = Append(calls, Call("print", "no repository or no commits"))
            /\ pc' = "main"
            /\ UNCHANGED log_lines
       ELSE /\ log_lines' = [n \in DOMAIN args.dates |-> LogLine(args.dates[n])]
            /\ pc' = "count"
            /\ UNCHANGED calls
    /\ UNCHANGED <<exit, history, history0, index, worktree, args, commits_by_date, stats>>
    /\ UNCHANGED <<cwdVars, cbdVars, ccmVars, rcmVars, chVars, gcVars, startVars>>

\* Lines 27-42
GsCount ==
    /\ pc = "count"
    /\ commits_by_date' = CountLines(log_lines, 1, <<>>)
    /\ pc' = IF DOMAIN commits_by_date' = {} THEN "main" ELSE "build"
    /\ UNCHANGED <<exit, calls, history, history0, index, worktree, args, log_lines, stats>>
    /\ UNCHANGED <<cwdVars, cbdVars, ccmVars, rcmVars, chVars, gcVars, startVars>>

\* Lines 44-67
GsBuild ==
    /\ pc = "build"
    /\ stats' = StatsOf(commits_by_date)
    /\ pc' = "main"
    /\ UNCHANGED <<exit, calls, history, history0, index, worktree, args, log_lines,
                   commits_by_date>>
    /\ UNCHANGED <<cwdVars, cbdVars, ccmVars, rcmVars, chVars, gcVars, startVars>>

\* Lines 124-142: the script writes stats.json and the page when it has
\* statistics; it ends normally either way.
GsMain ==
    /\ pc = "main"
    /\ IF DOMAIN stats # {}
       THEN /\ worktree' = worktree \cup {"stats.json"}
            /\ \E html \in {"updated", "not updated"} :
                   calls' = calls \o <<Call("print", html),
                                       Call("print", stats.total_commits)>>
       ELSE /\ calls' = Append(calls, Call("print", "no statistics"))
            /\ UNCHANGED worktree
    /\ pc' = "done"
    /\ exit' = Success
    /\ UNCHANGED <<history, history0, index, args, gsVars>>
    /\ UNCHANGED <<cwdVars, cbdVars, ccmVars, rcmVars, chVars, gcVars, startVars>>

GsNext == GsGitLog \/ GsCount \/ GsBuild \/ GsMain

SpecGetStats == GsInit /\ [][GsNext]_vars

\* The commits git log listed, and those among them whose date strptime reads.
Listed == IF args.repo = "valid" THEN DOMAIN args.dates ELSE {}

Counted == {n \in Listed : args.dates[n].year <= 9999}

CommitsOn(among, ordinal) ==
    Cardinality({n \in among : ToOrdinal(args.dates[n]) = ordinal})

\* The statistics the claim describes for a set of commits.
DayTableOf(among) ==
    LET ordinals == {ToOrdinal(args.dates[n]) : n \in among}
        lo == CHOOSE o \in ordinals : \A other \in ordinals : o <= other
        hi == CHOOSE o \in ordinals : \A other \in ordinals : other <= o
    IN  /\ DOMAIN stats # {}
        /\ stats.total_commits = Cardinality(among)
        /\ Cardinality(DOMAIN stats.stats) = hi - lo + 1
        /\ stats.total_days = hi - lo + 1
        /\ DOMAIN stats.stats = {DateStr(FromOrdinal(o)) : o \in lo .. hi}
        /\ \A o \in lo .. hi :
               stats.stats[DateStr(FromOrdinal(o))] = CommitsOn(among, o)
        /\ SumValues(stats.stats) = stats.total_commits
        /\ \A o \in lo .. hi : CommitsOn(among, o) <= stats.max_commits
        /\ \E o \in lo .. hi : CommitsOn(among, o) = stats.max_commits
        /\ stats.days_with_commits =
               Cardinality({o \in lo .. hi : CommitsOn(among, o) >= 1})

\* C17 as stated: when git log lists commits, the day table has one entry
\* for each day from the earliest to the latest commit day, zero on days
\* without commits, the counts add up to total_commits which is the number
\* of commits read, max_commits is the largest count and days_with_commits
\* the number of days with a count of at least one.
C17_DayTable ==
    (pc = "done" /\ Listed # {}) => DayTableOf(Listed)

\* C17, amended: the same over the commits whose author year has at most
\* four digits; a line with a longer year is passed over, and when no line
\* is left the result is empty.
C17_DayTableOfParsed ==
    pc = "done" =>
        IF Counted = {} THEN DOMAIN stats = {} ELSE DayTableOf(Counted)

\* Three commits on two days, with empty days between them.
C17_Witness ==
    /\ pc = "done"
    /\ Cardinality(Counted) = 3
    /\ DOMAIN stats # {}
    /\ stats.max_commits = 2
    /\ \E key \in DOMAIN stats.stats : stats.stats[key] = 0

\* A commit dated in the year 10000 beside counted ones.
C17_LineSkipped ==
    /\ pc = "done"
    /\ Counted # {}
    /\ Counted # Listed
    /\ DOMAIN stats # {}

\* C18: a script ends with exit status 0 exactly when its run succeeded; a
\* run of clear_history.py succeeded when clear_git_history returned True
\* (no repository, a declined prompt and a caught exception are failures).
C18_ExitStatus ==
    pc = "done" => (exit.code = 0 <=> returned = TRUE)

\* The operator declined and the script ended with status 0.
C18_DeclinedExitsZero ==
    /\ pc = "done"
    /\ git_dir = "repository"
    /\ returned = FALSE
    /\ exit.code = 0

(***************************************************************************)
(* change_commit_message.py: the optional push                             *)
(***************************************************************************)
PushAnswer == calls[FirstCall("input push")].arg

\* C19: git push --force-with-lease runs only after git filter-branch ended
\* with success and the operator then answered y or yes; after any other
\* answer, and on a run where a check or the rewrite failed, there is no
\* push.
C19_PushOnlyConfirmed ==
    /\ Called("git push --force-with-lease") =>
         /\ Cardinality(CallsOf("git push --force-with-lease")) = 1
         /\ 0 < FirstCall("git filter-branch")
         /\ calls[FirstCall("git filter-branch")].arg.returncode = 0
         /\ FirstCall("git filter-branch") < FirstCall("input push")
         /\ FirstCall("input push") < FirstCall("git push --force-with-lease")
         /\ Lower(Strip(PushAnswer)) \in {<<"y">>, <<"y", "e", "s">>}
    /\ (pc = "done" /\ Called("input push")
            /\ Lower(Strip(PushAnswer)) \notin {<<"y">>, <<"y", "e", "s">>}) =>
         ~Called("git push --force-with-lease")
    /\ (pc = "done" /\ ~Called("git filter-branch")) =>
         ~Called("input push") /\ ~Called("git push --force-with-lease")
    /\ (Called("git filter-branch")
            /\ calls[FirstCall("git filter-branch")].arg.returncode # 0) =>
         ~Called("input push") /\ ~Called("git push --force-with-lease")

\* A rewrite that succeeded, the answer " YES\n", and the push.
C19_Witness ==
    /\ pc = "done"
    /\ Called("git push --force-with-lease")
    /\ PushAnswer = <<" ", "Y", "E", "S", "\n">>
    /\ history # history0

\* A rewrite that failed: the run ends without the question.
C19_WitnessFailedRewrite ==
    /\ pc = "done"
    /\ Called("git filter-branch")
    /\ calls[FirstCall("git filter-branch")].arg.returncode = 1
    /\ exit.code = 1

(***************************************************************************)
(* generate_commits.py                                                     *)
(*                                                                         *)
(* args describes the directory the script runs in (whether it is a        *)
(* repository, whether git knows an identity to commit with, which         *)
(* directories .gitignore excludes) and what the run draws from: the       *)
(* number of days followed, the directories and name stems of new files,   *)
(* how many new files, whether every commit count or only the least, and   *)
(* whether any listed file or only the latest.                             *)
(* A path is a record of its directory, the stem of its name, the number   *)
(* after the stem (0 for none) and its extension, each as text.            *)
(***************************************************************************)
MaxGenDays == 3
MaxNewFiles == 1
MaxWeekDays == 12
MaxRandomCalls == 3

START_DATE == [year |-> 2025, month |-> 1, day |-> 1]
END_DATE == [year |-> 2025, month |-> 12, day |-> 31]

WEEKEND_COMMITS_MIN == 3
WEEKEND_COMMITS_MAX == 5
WEEKDAY_COMMITS_MIN == 1
WEEKDAY_COMMITS_MAX == 3
WEEKDAY_SKIP_DAYS_PER_WEEK == <<1, 2>>

\* The last day the model follows the loop to.
RunEnd ==
    IF ToOrdinal(END_DATE) < ToOrdinal(START_DATE) + args.days - 1
    THEN END_DATE
    ELSE DatePlusDays(START_DATE, args.days - 1)

\* date.weekday(): 0 is Monday, 6 is Sunday
Weekday(d) == (ToOrdinal(d) + 6) % 7

Path(dir, stem, num, ext) == [dir |-> dir, stem |-> stem, num |-> num, ext |-> ext]

Src == <<"s", "r", "c">>
Docs == <<"d", "o", "c", "s">>
Config == <<"c", "o", "n", "f", "i", "g">>
Scripts == <<"s", "c", "r", "i", "p", "t", "s">>
Main == <<"m", "a", "i", "n">>
Util == <<"u", "t", "i", "l">>
DotPy == <<".", "p", "y">>

base_files ==
    << Path(<<>>, <<"R", "E", "A", "D", "M", "E">>, 0, <<".", "m", "d">>),
       Path(Src, Main, 0, DotPy),
       Path(Config, <<"s", "e", "t", "t", "i", "n", "g", "s">>, 0,
            <<".", "j", "s", "o", "n">>),
       Path(Scripts, <<"r", "u", "n">>, 0, <<".", "s", "h">>) >>

\* The path as text: os.path.join(dir_name, file_name) with file_name the
\* stem, the number and the extension.
PathText(p) ==
    (IF p.dir = <<>> THEN <<>> ELSE p.dir \o <<"/">>)
        \o p.stem \o (IF p.num = 0 THEN <<>> ELSE Pad(p.num, 1)) \o p.ext

\* The directories and name stems random.choice draws from: in a run of the
\* whole script, and when get_random_file is followed by itself.
NewDirs == {Src, Docs}
NewStems == {Util}
AllDirs == {Src, Docs, Config, Scripts}
SomeStems == {Main, Config}

\* get_random_file, lines 150-161: the path of a new file in dir_name
NewFileNumberOne(dir_name, stem) == Path(dir_name, stem, 1, DotPy)

NewFile(dir_name, stem) ==
    LET file_num == Cardinality({n \in DOMAIN FILES_TO_MANAGE :
                                     IsPrefixOf(dir_name, PathText(FILES_TO_MANAGE[n]))}) + 1
    IN  Path(dir_name, stem, file_num, DotPy)

NewFilesSoFar == Len(FILES_TO_MANAGE) - Len(base_files)

\* get_random_file: what it may return, with FILES_TO_MANAGE afterwards.  Of
\* the files already listed the model draws any, or only the latest.
RandomFiles ==
    { [file_path |-> FILES_TO_MANAGE[n], files |-> FILES_TO_MANAGE] :
          n \in IF args.existing = "any" THEN DOMAIN FILES_TO_MANAGE
                ELSE {Len(FILES_TO_MANAGE)} }
    \cup
    { [file_path |-> NewFile(d, stem),
       files |-> Append(FILES_TO_MANAGE, NewFile(d, stem))] :
          d \in IF NewFilesSoFar < args.new_files THEN args.dirs ELSE {},
          stem \in args.stems }

\* create_or_modify_file as git sees it: the path has changes unless
\* .gitignore excludes it.
Touched(tree, file_path) ==
    IF file_path.dir \in args.ignored THEN tree ELSE tree \cup {file_path}

\* make_commit, lines 164-188, in a repository: git add -A, then git commit
\* with both dates set.  The outcome is "created", "nothing to commit" or
\* "refused", with the history and the index afterwards.
make_commit(tree, date, message) ==
    LET staged == index \cup tree
        env == CommitEnv(Strftime(date))
    IN  IF staged = {}
        THEN [outcome |-> "nothing to commit", history |-> history, index |-> staged]
        ELSE IF ~args.identity \/ ~GitDatesValid(env, 0)
        THEN [outcome |-> "refused", history |-> history, index |-> staged]
        ELSE [outcome |-> "created",
              history |-> Append(history,
                                 GitCommitObject(message, env,
                                                 GitParseDate(Strftime(date), 0).timestamp,
                                                 0, staged)),
              index |-> {}]

\* random.sample(population, k): the lists of k different members
RECURSIVE Sample(_, _)
Sample(population, k) ==
    IF k = 0 THEN {<<>>}
    ELSE UNION { {Append(chosen, x) :
                      x \in population \ {chosen[n] : n \in DOMAIN chosen}} :
                 chosen \in Sample(population, k - 1) }

\* get_weekday_skip_days_for_week, lines 215-230
get_three_skip_days(week_start_date) ==
    Sample({DatePlusDays(week_start_date, k) : k \in 0 .. 4}, 3)

get_weekday_skip_days_for_week(week_start_date) ==
    LET weekdays == {DatePlusDays(week_start_date, k) : k \in 0 .. 4}
    IN  UNION { Sample(weekdays, num_skip_days) :
                    num_skip_days \in WEEKDAY_SKIP_DAYS_PER_WEEK[1] ..
                                      WEEKDAY_SKIP_DAYS_PER_WEEK[2] }

\* get_commits_for_day, lines 205-212: the counts random.randint may give
get_commits_for_day(weekday) ==
    IF weekday >= 5 THEN WEEKEND_COMMITS_MIN .. WEEKEND_COMMITS_MAX
    ELSE WEEKDAY_COMMITS_MIN .. WEEKDAY_COMMITS_MAX

\* should_skip_day, lines 191-202: the answers it may give; a weekend day is
\* skipped when random.random() falls below WEEKEND_SKIP_CHANCE.
should_skip_day(date, skip_days) ==
    IF Weekday(date) >= 5 THEN BOOLEAN
    ELSE {\E n \in DOMAIN skip_days : skip_days[n] = date}

\* The time of day given to a commit (lines 290-296), one value per kind of
\* day.
CommitTime(date) ==
    [year |-> date.year, month |-> date.month, day |-> date.day,
     hour |-> IF Weekday(date) >= 5 THEN 8 ELSE 9, minute |-> 0, second |-> 0]

Environment(repo, identity, ignored) ==
    [repo |-> repo, identity |-> identity, ignored |-> ignored,
     days |-> MaxGenDays, dirs |-> NewDirs, stems |-> NewStems,
     new_files |-> MaxNewFiles, counts |-> "any", existing |-> "latest"]

Environments ==
    { Environment("valid", TRUE, {}),
      Environment("valid", FALSE, {}),
      Environment("valid", TRUE, {Docs}),
      Environment("outside", TRUE, {}) }

\* The commit counts the model draws for a day.
DrawnCounts(weekday) ==
    LET counts == get_commits_for_day(weekday)
    IN  IF args.counts = "least"
        THEN {CHOOSE n \in counts : \A other \in counts : n <= other}
        ELSE counts

Midnight(date) ==
    [year |-> date.year, month |-> date.month, day |-> date.day,
     hour |-> 0, minute |-> 0, second |-> 0]

GcInit ==
    /\ pc = "base_files"
    /\ exit = Running
    /\ calls = <<>>
    /\ args \in Environments
    /\ history = <<>>
    /\ history0 = history
    /\ index = {}
    /\ worktree = {}
    /\ current_date = START_DATE
    /\ total_commits = 0
    /\ skipped_days = 0
    /\ weekday_skip_days = <<>>
    /\ FILES_TO_MANAGE = <<>>
    /\ num_commits = 0
    /\ day_i = 0
    /\ attempted = {}
    /\ CwdIdle /\ CbdIdle /\ CcmIdle /\ RcmIdle /\ ChIdle /\ GsIdle
    /\ Started

\* Lines 239-250
GcBaseFiles ==
    /\ pc = "base_files"
    /\ FILES_TO_MANAGE' = FILES_TO_MANAGE \o base_files
    /\ worktree' = worktree \cup {base_files[n] : n \in DOMAIN base_files}
    /\ pc' = "initial_commit"
    /\ UNCHANGED <<exit, calls, history, history0, index, args>>
    /\ UNCHANGED <<current_date, total_commits, skipped_days, weekday_skip_days,
                   num_commits, day_i, attempted>>
    /\ UNCHANGED <<cwdVars, cbdVars, ccmVars, rcmVars, chVars, gsVars, startVars>>

\* Lines 252-266, and 328-336 when git add raises: outside a repository
\* `git add -A` fails, the exception reaches __main__, which prints it.
GcInitialCommit ==
    /\ pc = "initial_commit"
    /\ IF args.repo = "outside"
       THEN /\ calls' = Append(calls, Call("print error", "git add -A"))
            /\ pc' = "done"
            /\ exit' = Success
            /\ UNCHANGED <<history, index, worktree, total_commits, weekday_skip_days>>
       ELSE LET made == make_commit(worktree, Midnight(START_DATE), "Initial commit")
                week_start == DatePlusDays(START_DATE, 0 - Weekday(START_DATE))
            IN  /\ history' = made.history
                /\ index' = made.index
                /\ worktree' = {}
                /\ total_commits' = total_commits + 1
                /\ weekday_skip_days' \in get_weekday_skip_days_for_week(week_start)
                /\ pc' = "day"
                /\ UNCHANGED <<exit, calls>>
    /\ UNCHANGED <<history0, args, current_date, skipped_days, FILES_TO_MANAGE,
                   num_commits, day_i, attempted>>
    /\ UNCHANGED <<cwdVars, cbdVars, ccmVars, rcmVars, chVars, gsVars, startVars>>

\* Lines 269-283 and 315-316: the start of a day; a skipped day ends here.
GcDay ==
    /\ pc = "day"
    /\ ToOrdinal(current_date) <= ToOrdinal(RunEnd)
    /\ \E skip_days \in IF Weekday(current_date) = 0
                        THEN get_weekday_skip_days_for_week(current_date)
                        ELSE {weekday_skip_days} :
         /\ weekday_skip_days' = skip_days
         /\ \E skip \in should_skip_day(current_date, skip_days) :
              IF skip
              THEN /\ skipped_days' = skipped_days + 1
                   /\ current_date' = DatePlusDays(current_date, 1)
                   /\ UNCHANGED <<pc, num_commits, day_i>>
              ELSE /\ num_commits' \in DrawnCounts(Weekday(current_date))
                   /\ day_i' = 0
                   /\ pc' = "commit"
                   /\ UNCHANGED <<skipped_days, current_date>>
    /\ UNCHANGED <<exit, calls, history, history0, index, worktree, args>>
    /\ UNCHANGED <<total_commits, FILES_TO_MANAGE, attempted>>
    /\ UNCHANGED <<cwdVars, cbdVars, ccmVars, rcmVars, chVars, gsVars, startVars>>

\* Lines 286-316: one pass of the inner loop; after the last one the day
\* ends.
GcCommit ==
    /\ pc = "commit"
    /\ \E chosen \in RandomFiles, message \in {"Update configuration"} :
         LET made == make_commit(Touched(worktree, chosen.file_path),
                                 CommitTime(current_date), message)
         IN  /\ FILES_TO_MANAGE' = chosen.files
             /\ history' = made.history
             /\ index' = made.index
             /\ worktree' = {}
    /\ total_commits' = total_commits + 1
    /\ attempted' = attempted \cup {ToOrdinal(current_date)}
    /\ day_i' = day_i + 1
    /\ IF day_i' >= num_commits
       THEN /\ current_date' = DatePlusDays(current_date, 1)
            /\ pc' = "day"
       ELSE UNCHANGED <<current_date, pc>>
    /\ UNCHANGED <<exit, calls, history0, args>>
    /\ UNCHANGED <<skipped_days, weekday_skip_days, num_commits>>
    /\ UNCHANGED <<cwdVars, cbdVars, ccmVars, rcmVars, chVars, gsVars, startVars>>

\* Lines 322-325
GcSummary ==
    /\ pc = "day"
    /\ ToOrdinal(current_date) > ToOrdinal(RunEnd)
    /\ calls' = Append(calls, Call("print summary",
                                   [total_commits |-> total_commits,
                                    skipped_days |-> skipped_days]))
    /\ pc' = "done"
    /\ exit' = Success
    /\ UNCHANGED <<history, history0, index, worktree, args, gcVars>>
    /\ UNCHANGED <<cwdVars, cbdVars, ccmVars, rcmVars, chVars, gsVars, startVars>>

GcNext == GcBaseFiles \/ GcInitialCommit \/ GcDay \/ GcCommit \/ GcSummary

SpecGenerateCommits == GcInit /\ [][GcNext]_vars

\* What the final summary printed.
Summary == calls[FirstCall("print summary")].arg

CommitsMade == Len(history) - Len(history0)

DaysOfRun ==
    LET first == ToOrdinal(START_DATE)
        last == ToOrdinal(END_DATE)
    IN  first .. (IF last < first + args.days - 1 THEN last ELSE first + args.days - 1)

\* C20: the total of the final summary is the number of commits made during
\* the run (the initial commit and every later commit git accepted), its
\* skipped-day figure is the number of days of the range with no commit
\* attempt, and an attempt that finds nothing changed does not stop the
\* loop: in a repository the run goes on to the summary.
C20_SummaryCounts ==
    /\ Called("print summary") =>
         /\ Summary.total_commits = CommitsMade
         /\ Summary.skipped_days = Cardinality(DaysOfRun \ attempted)
    /\ (pc = "done" /\ args.repo = "valid") => Called("print summary")

\* The part of C20 that holds: the skipped-day figure, and the loop going on
\* to the summary whatever git answered.
C20_SkippedDays ==
    /\ Called("print summary") =>
         Summary.skipped_days = Cardinality(DaysOfRun \ attempted)
    /\ (pc = "done" /\ args.repo = "valid") => Called("print summary")

\* git refused every commit and the summary reports them as created.
C20_RefusedCounted ==
    /\ Called("print summary")
    /\ ~args.identity
    /\ CommitsMade = 0
    /\ Summary.total_commits > 1

\* An attempt found nothing to commit, and later attempts made commits.
C20_NothingChangedCounted ==
    /\ Called("print summary")
    /\ args.ignored # {}
    /\ 0 < CommitsMade
    /\ CommitsMade < Summary.total_commits
    /\ Summary.skipped_days > 0

(***************************************************************************)
(* generate_commits.py over the first weeks of the range: a repository     *)
(* where every commit is accepted, the least commit count each day, no     *)
(* new files.                                                              *)
(***************************************************************************)
GcWeeksInit ==
    /\ pc = "base_files"
    /\ exit = Running
    /\ calls = <<>>
    /\ args = [repo |-> "valid", identity |-> TRUE, ignored |-> {},
               days |-> MaxWeekDays, dirs |-> {}, stems |-> {},
               new_files |-> 0, counts |-> "least", existing |-> "latest"]
    /\ history = <<>>
    /\ history0 = history
    /\ index = {}
    /\ worktree = {}
    /\ current_date = START_DATE
    /\ total_commits = 0
    /\ skipped_days = 0
    /\ weekday_skip_days = <<>>
    /\ FILES_TO_MANAGE = <<>>
    /\ num_commits = 0
    /\ day_i = 0
    /\ attempted = {}
    /\ CwdIdle /\ CbdIdle /\ CcmIdle /\ RcmIdle /\ ChIdle /\ GsIdle
    /\ Started

SpecGenerateWeeks == GcWeeksInit /\ [][GcNext]_vars

\* The Monday of the week of ordinal o, and the days of the range whose
\* turn is over: those before current_date.
MondayOf(o) == o - ((o + 6) % 7)

DayOver(o) == o \in DaysOfRun /\ o < ToOrdinal(current_date)

SkippedDay(o) == DayOver(o) /\ o \notin attempted

\* The week weekday_skip_days was drawn for: that of the last day whose
\* turn has begun.
SkipWeek ==
    MondayOf(IF pc = "commit" THEN ToOrdinal(current_date)
             ELSE ToOrdinal(current_date) - 1)

SkipSet == {ToOrdinal(weekday_skip_days[n]) : n \in DOMAIN weekday_skip_days}

SkippedWeekdays(monday) == {o \in monday .. monday + 4 : SkippedDay(o)}

Mondays == {MondayOf(o) : o \in DaysOfRun}

SkipsDecided == pc \in {"day", "commit"} \/ (pc = "done" /\ args.repo = "valid")

\* C21: the weekday skip set changes only at the back-computed Monday of the
\* first week and at a Monday of the range; it holds one or two of its
\* week's Monday-Friday dates; a weekday of that week whose turn is over was
\* skipped exactly if it is in the set; every week lying fully inside the
\* range has one or two skipped weekdays once its Friday is over, and no
\* week has more than two.
C21_WeeklySkips ==
    /\ [](SkipsDecided =>
            /\ Len(weekday_skip_days) \in 1 .. 2
            /\ Cardinality(SkipSet) = Len(weekday_skip_days)
            /\ SkipSet \subseteq SkipWeek .. SkipWeek + 4
            /\ \A o \in SkipWeek .. SkipWeek + 4 :
                   DayOver(o) => (SkippedDay(o) <=> o \in SkipSet)
            /\ \A monday \in Mondays :
                   /\ Cardinality(SkippedWeekdays(monday)) <= 2
                   /\ (monday \in DaysOfRun /\ monday + 6 \in DaysOfRun
                           /\ DayOver(monday + 4)) =>
                        Cardinality(SkippedWeekdays(monday)) >= 1)
    /\ [][weekday_skip_days' # weekday_skip_days =>
              \/ pc = "initial_commit"
              \/ pc = "day" /\ Weekday(current_date) = 0]_vars

\* A week inside the range is over with two weekdays skipped, after a first
\* week with one.
C21_Witness ==
    /\ pc = "done"
    /\ Called("print summary")
    /\ \E monday \in Mondays :
           /\ monday \in DaysOfRun /\ monday + 6 \in DaysOfRun
           /\ Cardinality(SkippedWeekdays(monday)) = 2
    /\ Cardinality(SkippedWeekdays(MondayOf(ToOrdinal(START_DATE)))) = 1

\* A week inside the range with a single skipped weekday.
C21_WitnessOne ==
    /\ pc = "done"
    /\ \E monday \in Mondays :
           /\ monday \in DaysOfRun /\ monday + 6 \in DaysOfRun
           /\ Cardinality(SkippedWeekdays(monday)) = 1

(***************************************************************************)
(* generate_commits.py: get_random_file called again and again on the      *)
(* list seeded with the four base files                                    *)
(***************************************************************************)
GrfInit ==
    /\ pc = "get_random_file"
    /\ exit = Running
    /\ calls = <<>>
    /\ args = [repo |-> "valid", identity |-> TRUE, ignored |-> {},
               days |-> 0, dirs |-> AllDirs, stems |-> SomeStems,
               new_files |-> MaxRandomCalls, counts |-> "any", existing |-> "any"]
    /\ history = <<>>
    /\ history0 = history
    /\ index = {}
    /\ worktree = {}
    /\ current_date = START_DATE
    /\ total_commits = 0
    /\ skipped_days = 0
    /\ weekday_skip_days = <<>>
    /\ FILES_TO_MANAGE = base_files
    /\ num_commits = 0
    /\ day_i = 0
    /\ attempted = {}
    /\ CwdIdle /\ CbdIdle /\ CcmIdle /\ RcmIdle /\ ChIdle /\ GsIdle
    /\ Started

\* get_random_file, lines 141-161: one call
GrfCall ==
    /\ pc = "get_random_file"
    /\ Len(calls) < MaxRandomCalls
    /\ \E chosen \in RandomFiles :
         /\ FILES_TO_MANAGE' = chosen.files
         /\ calls' = Append(calls, Call("get_random_file", chosen.file_path))
    /\ UNCHANGED <<pc, exit, history, history0, index, worktree, args>>
    /\ UNCHANGED <<current_date, total_commits, skipped_days, weekday_skip_days,
                   num_commits, day_i, attempted>>
    /\ UNCHANGED <<cwdVars, cbdVars, ccmVars, rcmVars, chVars, gsVars, startVars>>

GrfNext == GrfCall

SpecGetRandomFile == GrfInit /\ [][GrfNext]_vars

ManagedPaths == {PathText(FILES_TO_MANAGE[n]) : n \in DOMAIN FILES_TO_MANAGE}

\* C22: after any number of get_random_file calls on the seeded list no path
\* is listed twice, a call leaves the list as it was or adds one path that
\* was not in it, and every path a call returned is in the list.
C22_NoDuplicatePaths ==
    /\ [](pc = "get_random_file" =>
            /\ Cardinality(ManagedPaths) = Len(FILES_TO_MANAGE)
            /\ \A n \in DOMAIN calls : PathText(calls[n].arg) \in ManagedPaths)
    /\ [][pc = "get_random_file" =>
              \/ FILES_TO_MANAGE' = FILES_TO_MANAGE
              \/ \E p \in {calls'[Len(calls')].arg} :
                     /\ FILES_TO_MANAGE' = Append(FILES_TO_MANAGE, p)
                     /\ PathText(p) \notin ManagedPaths]_vars

\* Three new files in config, two of them config2.py and config3.py beside
\* the base file config/settings.json.
C22_Witness ==
    /\ pc = "get_random_file"
    /\ Len(FILES_TO_MANAGE) = Len(base_files) + 3
    /\ \A n \in Len(base_files) + 1 .. Len(FILES_TO_MANAGE) :
           FILES_TO_MANAGE[n].dir = Config
    /\ FILES_TO_MANAGE[5] = Path(Config, Config, 2, DotPy)
    /\ FILES_TO_MANAGE[6] = Path(Config, Config, 3, DotPy)

\* A listed file returned again after new ones were added.
C22_WitnessExisting ==
    /\ pc = "get_random_file"
    /\ Len(calls) = 3
    /\ Len(FILES_TO_MANAGE) = Len(base_files) + 2
    /\ calls[3].arg = FILES_TO_MANAGE[5]
====
